---- MODULE Spec2Model ----
(***************************************************************************)
(* Contact-keeper-manager: the CSV import pipeline (CsvService), the       *)
(* contacts controller and the storage they share, as a state machine.     *)
(*                                                                         *)
(* Text is a sequence of one-character strings, so that parsing, trimming  *)
(* and formatting are computed and not assumed.  The storage is the single *)
(* sql.js connection of server.ts: one live table per entity and a stack   *)
(* of snapshots, one per open transaction / savepoint.                     *)
(***************************************************************************)
EXTENDS Integers, Sequences, FiniteSets, TLC

VARIABLES
    contacts,   \* the contacts table: a set of Contact rows
    clients,    \* the clients table: a set of Client rows
    txStack,    \* snapshots taken by BEGIN / SAVEPOINT, innermost last
    req,        \* per request slot: the handler's position and locals
    log,        \* completed requests, oldest first (history)
    ops         \* number of requests started so far

vars == <<contacts, clients, txStack, req, log, ops>>

-----------------------------------------------------------------------------
(* Bounds of the model *)

\* CSV_CONFIG.MAX_RECORDS_PER_BATCH is 1000 in src/src/constants.ts:19; the
\* model runs the same loop with a small cap.
MAX_RECORDS_PER_BATCH == 2

\* longest file drawn from the row pools (the cap-overrun files are longer)
MaxRows == 3

\* requests started in one behaviour
MaxOps == 2

\* a file that overruns the batch has MAX_RECORDS_PER_BATCH + Overrun rows
Overrun == 5

\* requests the server works on at the same time
NumSlots == 2
MaxFieldLen == 3

-----------------------------------------------------------------------------
(* Text helpers: JavaScript string operations on character sequences *)

Digits == {"0", "1", "2", "3", "4", "5", "6", "7", "8", "9"}

DigitVal(c) ==
    CASE c = "0" -> 0 [] c = "1" -> 1 [] c = "2" -> 2 [] c = "3" -> 3
      [] c = "4" -> 4 [] c = "5" -> 5 [] c = "6" -> 6 [] c = "7" -> 7
      [] c = "8" -> 8 [] c = "9" -> 9

DigitChar(n) ==
    CASE n = 0 -> "0" [] n = 1 -> "1" [] n = 2 -> "2" [] n = 3 -> "3"
      [] n = 4 -> "4" [] n = 5 -> "5" [] n = 6 -> "6" [] n = 7 -> "7"
      [] n = 8 -> "8" [] n = 9 -> "9"

RECURSIVE TrimStart(_)
TrimStart(s) ==
    IF s # <<>> /\ Head(s) = " " THEN TrimStart(Tail(s)) ELSE s

RECURSIVE TrimEnd(_)
TrimEnd(s) ==
    IF s # <<>> /\ s[Len(s)] = " " THEN TrimEnd(SubSeq(s, 1, Len(s) - 1)) ELSE s

\* String.prototype.trim
Trim(s) == TrimEnd(TrimStart(s))

\* length of the longest prefix of s made of digits
RECURSIVE DigitPrefixLen(_)
DigitPrefixLen(s) ==
    IF s # <<>> /\ Head(s) \in Digits THEN 1 + DigitPrefixLen(Tail(s)) ELSE 0

RECURSIVE DigitsValue(_, _)
DigitsValue(s, acc) ==
    IF s = <<>> THEN acc ELSE DigitsValue(Tail(s), 10 * acc + DigitVal(Head(s)))

NaN == [nan |-> TRUE, val |-> 0]
Num(n) == [nan |-> FALSE, val |-> n]

\* Number.parseInt(s, 10): leading white space is skipped, one sign is
\* accepted, then the longest run of digits is read; anything after it is
\* ignored; no digit at all gives NaN.
ParseInt(s) ==
    LET t    == TrimStart(s)
        neg  == t # <<>> /\ Head(t) = "-"
        sgn  == t # <<>> /\ Head(t) \in {"-", "+"}
        body == IF sgn THEN Tail(t) ELSE t
        n    == DigitPrefixLen(body)
        v    == DigitsValue(SubSeq(body, 1, n), 0)
    IN  IF n = 0 THEN NaN ELSE Num(IF neg THEN 0 - v ELSE v)

\* String(n) for an integer n
RECURSIVE NatToString(_)
NatToString(n) ==
    IF n < 10 THEN <<DigitChar(n)>>
    ELSE Append(NatToString(n \div 10), DigitChar(n % 10))

NumberToString(n) == IF n < 0 THEN <<"-">> \o NatToString(0 - n) ELSE NatToString(n)

EMPTY_MARK == <<"<", "e", "m", "p", "t", "y", ">">>

-----------------------------------------------------------------------------
(* utils/validation: isValidDateFormat *)

IsDigits(s) == \A i \in 1..Len(s) : s[i] \in Digits

\* the pieces of s between "/" characters (String.prototype.split("/"))
RECURSIVE SplitSlash(_, _)
SplitSlash(s, cur) ==
    IF s = <<>> THEN <<cur>>
    ELSE IF Head(s) = "/" THEN <<cur>> \o SplitSlash(Tail(s), <<>>)
    ELSE SplitSlash(Tail(s), Append(cur, Head(s)))

\* (0?[1-9]|1[0-2])
MonthPattern(m) ==
    \/ Len(m) = 1 /\ m[1] \in Digits \ {"0"}
    \/ Len(m) = 2 /\ m[1] = "0" /\ m[2] \in Digits \ {"0"}
    \/ Len(m) = 2 /\ m[1] = "1" /\ m[2] \in {"0", "1", "2"}

\* (0?[1-9]|[12]\d|3[01])
DayPattern(d) ==
    \/ Len(d) = 1 /\ d[1] \in Digits \ {"0"}
    \/ Len(d) = 2 /\ d[1] = "0" /\ d[2] \in Digits \ {"0"}
    \/ Len(d) = 2 /\ d[1] \in {"1", "2"} /\ d[2] \in Digits
    \/ Len(d) = 2 /\ d[1] = "3" /\ d[2] \in {"0", "1"}

\* VALIDATION.DATE_FORMAT_REGEX: ^(0?[1-9]|1[0-2])\/(0?[1-9]|[12]\d|3[01])\/\d{4}$
DATE_FORMAT_REGEX(s) ==
    LET parts == SplitSlash(s, <<>>)
    IN  /\ Len(parts) = 3
        /\ MonthPattern(parts[1])
        /\ DayPattern(parts[2])
        /\ Len(parts[3]) = 4 /\ IsDigits(parts[3])

IsLeapYear(y) == (y % 4 = 0 /\ y % 100 # 0) \/ y % 400 = 0

\* new Date(year, month, 0).getDate()
DaysInMonth(y, m) ==
    IF m = 2 THEN (IF IsLeapYear(y) THEN 29 ELSE 28)
    ELSE IF m \in {4, 6, 9, 11} THEN 30 ELSE 31

\* new Date(year, month - 1, day) gives back the same year, month and day;
\* the Date constructor maps the years 0..99 to 1900..1999.
DateRoundTrips(y, m, d) == y >= 100 /\ d <= DaysInMonth(y, m)

isValidDateFormat(dateStr) ==
    /\ dateStr # <<>>
    /\ DATE_FORMAT_REGEX(dateStr)
    /\ LET parts == SplitSlash(dateStr, <<>>)
           month == DigitsValue(parts[1], 0)
           day   == DigitsValue(parts[2], 0)
           year  == DigitsValue(parts[3], 0)
       IN  /\ DateRoundTrips(year, month, day)
           /\ day <= DaysInMonth(year, month)

-----------------------------------------------------------------------------
(* InputSanitizer and validateContactData: the request body of POST and PUT  *)

\* a JSON value of the request body: a number or a string
JsonNumber(n) == [type |-> "number", num |-> n, text |-> <<>>]
JsonString(s) == [type |-> "string", num |-> 0, text |-> s]

MAX_STRING_LENGTH == 500
MIN_POSITIVE_INTEGER == 1
MAX_INTEGER == 2147483647

\* validator.escape: the characters HTML gives a meaning to become entities
\* (the grave accent, which no input of this model contains, is left out)
EscapeChar(c) ==
    CASE c = "&"  -> <<"&", "a", "m", "p", ";">>
      [] c = "<"  -> <<"&", "l", "t", ";">>
      [] c = ">"  -> <<"&", "g", "t", ";">>
      [] c = "\"" -> <<"&", "q", "u", "o", "t", ";">>
      [] c = "'"  -> <<"&", "#", "x", "2", "7", ";">>
      [] c = "/"  -> <<"&", "#", "x", "2", "F", ";">>
      [] c = "\\" -> <<"&", "#", "x", "5", "C", ";">>
      [] OTHER    -> <<c>>

RECURSIVE Escape(_)
Escape(s) == IF s = <<>> THEN <<>> ELSE EscapeChar(Head(s)) \o Escape(Tail(s))

sanitizeString(input) ==
    LET trimmed   == Trim(input)
        sanitized == Escape(trimmed)
    IN  IF trimmed = <<>> THEN <<>>
        ELSE IF Len(sanitized) > MAX_STRING_LENGTH
             THEN SubSeq(sanitized, 1, MAX_STRING_LENGTH)
             ELSE sanitized

\* 0 stands for every value that is not an integer of the accepted range
sanitizeInteger(value) ==
    IF value.type = "string" /\ value.text = <<>> THEN 0
    ELSE LET parsedValue == IF value.type = "number" THEN Num(value.num)
                            ELSE ParseInt(value.text)
         IN  IF parsedValue.nan THEN 0
             ELSE IF parsedValue.val < MIN_POSITIVE_INTEGER \/ parsedValue.val > MAX_INTEGER
                  THEN 0
                  ELSE parsedValue.val

sanitizeDate(dateStr) ==
    LET trimmed == Trim(dateStr)
    IN  IF DATE_FORMAT_REGEX(trimmed) THEN trimmed ELSE <<>>

sanitizeContactData(data) ==
    [contact_id           |-> sanitizeInteger(data.contact_id),
     first_name           |-> sanitizeString(data.first_name),
     contact_created_date |-> sanitizeDate(data.contact_created_date),
     law_firm_id          |-> sanitizeInteger(data.law_firm_id)]

\* isPositiveInteger applied to the text of a URL parameter
isPositiveIntegerText(value) ==
    LET num == ParseInt(value)
    IN  ~num.nan /\ num.val > 0 /\ NumberToString(num.val) = value

\* isPositiveInteger applied to a number
isPositiveIntegerNumber(value) == value > 0

\* mutant: the format checks run although required fields are missing
validateContactData_NoEarlyReturn(data) ==
    LET sanitizedData == sanitizeContactData(data)
        Msg(cond, text) == IF cond THEN <<text>> ELSE <<>>
        errors ==
            Msg(sanitizedData.contact_id = 0, "Contact ID is required and cannot be empty")
              \o Msg(Trim(sanitizedData.first_name) = <<>>, "First Name is required")
              \o Msg(Trim(sanitizedData.contact_created_date) = <<>>,
                     "Contact Created Date is required")
              \o Msg(sanitizedData.law_firm_id = 0, "Law Firm ID is required")
              \o Msg(~isPositiveIntegerNumber(sanitizedData.contact_id),
                     "Contact ID must be a positive integer")
              \o Msg(~isPositiveIntegerNumber(sanitizedData.law_firm_id),
                     "Law Firm ID must be a positive integer")
              \o Msg(~isValidDateFormat(sanitizedData.contact_created_date),
                     "Contact Created Date must be in MM/DD/YYYY format")
    IN  [isValid |-> errors = <<>>, errors |-> errors, sanitizedData |-> sanitizedData]

validateContactData(data) ==
    LET sanitizedData == sanitizeContactData(data)
        Msg(cond, text) == IF cond THEN <<text>> ELSE <<>>
        required ==
            Msg(sanitizedData.contact_id = 0, "Contact ID is required and cannot be empty")
              \o Msg(Trim(sanitizedData.first_name) = <<>>, "First Name is required")
              \o Msg(Trim(sanitizedData.contact_created_date) = <<>>,
                     "Contact Created Date is required")
              \o Msg(sanitizedData.law_firm_id = 0, "Law Firm ID is required")
        formats ==
            Msg(~isPositiveIntegerNumber(sanitizedData.contact_id),
                "Contact ID must be a positive integer")
              \o Msg(~isPositiveIntegerNumber(sanitizedData.law_firm_id),
                     "Law Firm ID must be a positive integer")
              \o Msg(~isValidDateFormat(sanitizedData.contact_created_date),
                     "Contact Created Date must be in MM/DD/YYYY format")
        errors == IF required # <<>> THEN required ELSE formats
    IN  [isValid |-> errors = <<>>, errors |-> errors, sanitizedData |-> sanitizedData]

-----------------------------------------------------------------------------
(* Inputs: the records the CSV parser yields, drawn from small pools *)

D_GOOD == <<"1", "/", "1", "/", "2", "0", "2", "4">>
D_BAD  == <<"2", "/", "3", "0", "/", "2", "0", "2", "4">>

ContactRecord(id, name, date, firm) ==
    [contact_id |-> id, first_name |-> name, contact_created_date |-> date,
     law_firm_id |-> firm]

\* a well-formed record with key n
GoodRecord(n, name) == ContactRecord(NumberToString(n), name, D_GOOD, <<"7">>)

ContactRecordPool ==
    { GoodRecord(1, <<"a">>), GoodRecord(1, <<"b">>), GoodRecord(2, <<"a">>),
      ContactRecord(<<>>, <<"a">>, D_GOOD, <<"7">>),            \* blank key
      ContactRecord(<<"-", "2">>, <<"a">>, D_GOOD, <<"7">>),    \* negative key
      ContactRecord(<<"2", "x">>, <<"b">>, D_GOOD, <<"7">>),    \* digits, then junk
      ContactRecord(<<"3">>, <<"b">>, D_GOOD, <<>>),            \* blank law_firm_id
      ContactRecord(<<"3">>, <<"b">>, D_BAD, <<"7">>) }         \* no such calendar day

SeqsUpTo(S, n) == UNION { [1..k -> S] : k \in 0..n }

\* MAX_RECORDS_PER_BATCH + Overrun well-formed records with distinct keys
OverrunFile(name) ==
    [i \in 1..(MAX_RECORDS_PER_BATCH + Overrun) |-> GoodRecord(i, name)]

\* the records the longest files are made of
ContactRecordCore ==
    { GoodRecord(1, <<"a">>), GoodRecord(1, <<"b">>), GoodRecord(2, <<"a">>),
      ContactRecord(<<"-", "2">>, <<"a">>, D_GOOD, <<"7">>),
      ContactRecord(<<"3">>, <<"b">>, D_BAD, <<"7">>) }

ContactFiles ==
    SeqsUpTo(ContactRecordPool, MaxRows - 1) \cup [1..MaxRows -> ContactRecordCore]
      \cup { OverrunFile(<<"a">>), OverrunFile(<<"b">>) }

ClientRecord(id, name) == [client_id |-> id, client_name |-> name]

ClientRecordPool ==
    { ClientRecord(<<"1">>, <<"a">>), ClientRecord(<<"1">>, <<"b">>),
      ClientRecord(<<"2">>, <<"a">>),
      ClientRecord(<<>>, <<"a">>), ClientRecord(<<"-", "2">>, <<"a">>),
      ClientRecord(<<"2">>, <<" ">>) }

ClientOverrunFile ==
    [i \in 1..(MAX_RECORDS_PER_BATCH + Overrun) |-> ClientRecord(NumberToString(i), <<"a">>)]

ClientRecordCore ==
    { ClientRecord(<<"1">>, <<"a">>), ClientRecord(<<"1">>, <<"b">>),
      ClientRecord(<<"2">>, <<"a">>), ClientRecord(<<"-", "2">>, <<"a">>) }

ClientFiles ==
    SeqsUpTo(ClientRecordPool, MaxRows - 1) \cup [1..MaxRows -> ClientRecordCore]
      \cup { ClientOverrunFile }


-----------------------------------------------------------------------------
(* Storage: the tables and the statements TypeORM issues on them *)

Range(f) == { f[i] : i \in DOMAIN f }

Keys(tbl) == { r.contact_id : r \in tbl }

ClientKeys(tbl) == { r.client_id : r \in tbl.rows }

\* mutant: the probe finds nothing
FindContactIds_None(tbl, ids) == {}

\* repository.find({ select: ["contact_id"], where: ids.map(id => ({ contact_id: id })) })
\* An empty list of alternatives is no WHERE clause at all.
FindContactIds(tbl, ids) ==
    IF ids = <<>> THEN Keys(tbl) ELSE Keys(tbl) \cap Range(ids)

FindClientIds(tbl, ids) ==
    IF ids = <<>> THEN ClientKeys(tbl) ELSE ClientKeys(tbl) \cap Range(ids)

\* mutant: contact_id is an ordinary column, any row may be added
PrimaryKeyFree_Unchecked(tbl, row) == TRUE

\* the PRIMARY KEY of contacts: a row may be added only under a key that no
\* other row has
PrimaryKeyFree(tbl, row) == row.contact_id \notin Keys(tbl)

\* INSERT of several rows, one statement: the rows are added in order, and the
\* first one that breaks the primary key aborts the whole statement.
RECURSIVE InsertRows(_, _)
InsertRows(tbl, rows) ==
    IF rows = <<>> THEN [ok |-> TRUE, tbl |-> tbl]
    ELSE IF ~PrimaryKeyFree(tbl, Head(rows)) THEN [ok |-> FALSE, tbl |-> tbl]
    ELSE InsertRows(tbl \cup {Head(rows)}, Tail(rows))

\* mutant: a row under a taken key is left out, the statement succeeds
DbInsert_IgnoresTaken(tbl, rows) ==
    [ok |-> TRUE, tbl |-> tbl \cup { r \in Range(rows) : r.contact_id \notin Keys(tbl) }]

\* repository.insert(rows)
DbInsert(tbl, rows) ==
    LET r == InsertRows(tbl, rows)
    IN  IF r.ok THEN r ELSE [ok |-> FALSE, tbl |-> tbl]

\* UPDATE contacts SET ... WHERE contact_id = row.contact_id
UpdateRow(tbl, row) ==
    { IF r.contact_id = row.contact_id THEN row ELSE r : r \in tbl }

\* repository.save(entities), first half: the SELECT that loads the stored
\* entities with the keys of the ones to save
SaveLoaded(tbl, rows) == Keys(tbl) \cap { rows[i].contact_id : i \in DOMAIN rows }

\* repository.save(entities), second half: an entity the SELECT had found is
\* written with UPDATE, which changes no row when the key is gone by now; one
\* it had not found is written with INSERT, which the primary key may refuse.
RECURSIVE SaveWritten(_, _, _)
SaveWritten(tbl, rows, loaded) ==
    IF rows = <<>> THEN [ok |-> TRUE, tbl |-> tbl]
    ELSE LET row == Head(rows)
         IN  IF row.contact_id \in loaded
             THEN SaveWritten(UpdateRow(tbl, row), Tail(rows), loaded)
             ELSE IF PrimaryKeyFree(tbl, row)
             THEN SaveWritten(tbl \cup {row}, Tail(rows), loaded)
             ELSE [ok |-> FALSE, tbl |-> tbl]

\* mutant: the delete has no WHERE clause
DeleteRow_All(tbl, id) == {}

\* DELETE FROM contacts WHERE contact_id = id
DeleteRow(tbl, id) == { r \in tbl : r.contact_id # id }

\* repository.upsert(clients, ["client_id"]):
\* INSERT ... ON CONFLICT (client_id) DO UPDATE SET client_name = excluded.client_name
RECURSIVE DbUpsertClients(_, _)
DbUpsertClients(tbl, rows) ==
    IF rows = <<>> THEN tbl
    ELSE LET row == Head(rows)
             new == IF row.client_id \in ClientKeys(tbl)
                    THEN [tbl EXCEPT !.rows =
                            { IF r.client_id = row.client_id
                              THEN [r EXCEPT !.client_name = row.client_name] ELSE r : r \in @ }]
                    ELSE [rows |-> tbl.rows \cup
                                     {[id |-> tbl.seq + 1, client_id |-> row.client_id,
                                       client_name |-> row.client_name]},
                          seq |-> tbl.seq + 1]
         IN  DbUpsertClients(new, Tail(rows))

\* what BEGIN TRANSACTION / SAVEPOINT remembers
Snapshot == [contacts |-> contacts, clients |-> clients]

-----------------------------------------------------------------------------
(* CsvService: the parse loop of importContacts and importClients *)

\* mutant: the comparison is off by one
BatchLimitReached_OffByOne(n) == n > MAX_RECORDS_PER_BATCH

\* contacts.length >= CSV_CONFIG.MAX_RECORDS_PER_BATCH
BatchLimitReached(n) == n >= MAX_RECORDS_PER_BATCH

\* `Batch size limit reached (${MAX_RECORDS_PER_BATCH} records). Additional
\* records were not processed.`
BatchLimitMessage ==
    [type |-> "Batch size limit reached", value |-> NumberToString(MAX_RECORDS_PER_BATCH)]

\* mutant: only NaN and zero are refused, as the first import loop did
InvalidId_ZeroOnly(id) == id.nan \/ id.val = 0

\* !Number.isInteger(id) || id <= 0
InvalidId(id) == id.nan \/ id.val <= 0

\* `Skipping record with invalid <field>: ${raw || "<empty>"}`
SkipMessage(field, raw) ==
    [type |-> field, value |-> IF raw = <<>> THEN EMPTY_MARK ELSE raw]

\* mutant: the loop goes on after the message instead of leaving, so every
\* remaining record adds the message again
OnBatchLimit_NoBreak(file, i, acc) ==
    [acc EXCEPT !.errors = @ \o [k \in 1..(Len(file) - i + 1) |-> BatchLimitMessage]]

\* the batch is full at record i: errors.push(...); break
OnBatchLimit(file, i, acc) == [acc EXCEPT !.errors = Append(@, BatchLimitMessage)]

\* the Contact pushed onto contacts[]
StagedContact(record, contactId, lawFirmId) ==
    [contact_id |-> contactId, first_name |-> record.first_name,
     contact_created_date |-> record.contact_created_date, law_firm_id |-> lawFirmId]

EmptyBatch == [staged |-> <<>>, errors |-> <<>>, skipped |-> 0, consumed |-> 0]

\* for await (const record of parser) { ... } of importContacts, from record i
RECURSIVE ParseContacts(_, _, _)
ParseContacts(file, i, acc) ==
    IF i > Len(file) THEN acc
    ELSE IF BatchLimitReached(Len(acc.staged))
    THEN OnBatchLimit(file, i, acc)
    ELSE
      LET record       == file[i]
          contactIdRaw == Trim(record.contact_id)
          contactId    == ParseInt(contactIdRaw)
          lawFirmIdRaw == Trim(record.law_firm_id)
          lawFirmId    == ParseInt(lawFirmIdRaw)
          seen         == [acc EXCEPT !.consumed = i]
      IN  IF InvalidId(contactId)
          THEN ParseContacts(file, i + 1,
                 [seen EXCEPT !.skipped = @ + 1,
                              !.errors = Append(@, SkipMessage("invalid contact_id", contactIdRaw))])
          ELSE IF InvalidId(lawFirmId)
          THEN ParseContacts(file, i + 1,
                 [seen EXCEPT !.skipped = @ + 1,
                              !.errors = Append(@, SkipMessage("invalid law_firm_id", lawFirmIdRaw))])
          ELSE ParseContacts(file, i + 1,
                 [seen EXCEPT !.staged =
                    Append(@, StagedContact(record, contactId.val, lawFirmId.val))])

\* for await (const record of parser) { ... } of importClients, from record i
RECURSIVE ParseClients(_, _, _)
ParseClients(file, i, acc) ==
    IF i > Len(file) THEN acc
    ELSE IF BatchLimitReached(Len(acc.staged))
    THEN OnBatchLimit(file, i, acc)
    ELSE
      LET record      == file[i]
          clientIdRaw == Trim(record.client_id)
          clientId    == ParseInt(clientIdRaw)
          clientName  == Trim(record.client_name)
          seen        == [acc EXCEPT !.consumed = i]
      IN  IF InvalidId(clientId)
          THEN ParseClients(file, i + 1,
                 [seen EXCEPT !.skipped = @ + 1,
                              !.errors = Append(@, SkipMessage("invalid client_id", clientIdRaw))])
          ELSE IF clientName = <<>>
          THEN ParseClients(file, i + 1,
                 [seen EXCEPT !.skipped = @ + 1,
                              !.errors = Append(@, SkipMessage("empty client_name for client_id",
                                                               NumberToString(clientId.val)))])
          ELSE ParseClients(file, i + 1,
                 [seen EXCEPT !.staged =
                    Append(@, [client_id |-> clientId.val, client_name |-> clientName])])

\* mutant: the rows are put in front of the sets, not at their end
RECURSIVE PartitionContacts_Reversed(_, _, _)
PartitionContacts_Reversed(staged, existingContactIds, acc) ==
    IF staged = <<>> THEN acc
    ELSE LET contactData == Head(staged)
         IN  IF contactData.contact_id \in existingContactIds
             THEN PartitionContacts_Reversed(Tail(staged), existingContactIds,
                                    [acc EXCEPT !.toUpdate = <<contactData>> \o @])
             ELSE PartitionContacts_Reversed(Tail(staged), existingContactIds,
                                    [acc EXCEPT !.toInsert = <<contactData>> \o @])

\* the single pass of importContacts that fills toInsert and toUpdate
RECURSIVE PartitionContacts(_, _, _)
PartitionContacts(staged, existingContactIds, acc) ==
    IF staged = <<>> THEN acc
    ELSE LET contactData == Head(staged)
         IN  IF contactData.contact_id # 0 /\ contactData.contact_id \in existingContactIds
             THEN PartitionContacts(Tail(staged), existingContactIds,
                                    [acc EXCEPT !.toUpdate = Append(@, contactData)])
             ELSE PartitionContacts(Tail(staged), existingContactIds,
                                    [acc EXCEPT !.toInsert = Append(@, contactData)])

\* mutant: the skipped records are left out of the total
TotalRecords_NoSkipped(staged, skipped) == Len(staged)

\* totalRecords: contacts.length + skipped
TotalRecords(staged, skipped) == Len(staged) + skipped

\* the CsvImportResult returned by importContacts / importClients
CsvImportResult(r) ==
    [totalRecords |-> TotalRecords(r.staged, r.skipped),
     inserted |-> r.inserted, updated |-> r.updated,
     skipped |-> r.skipped, errors |-> r.errors]

-----------------------------------------------------------------------------
(* Request slots *)

\* req.query of a request that carries no query string
NoQuery == [page |-> <<>>, pageSize |-> <<>>, sortField |-> "", sortOrder |-> ""]

NoResult == [totalRecords |-> 0, inserted |-> 0, updated |-> 0, skipped |-> 0, errors |-> <<>>]

Idle ==
    [kind |-> "none", pc |-> "idle", file |-> <<>>,
     staged |-> <<>>, errors |-> <<>>, skipped |-> 0, consumed |-> 0,
     existing |-> {}, toInsert |-> <<>>, toUpdate |-> <<>>,
     inserted |-> 0, updated |-> 0,
     inTx |-> FALSE, stmts |-> <<>>, failedAt |-> "none",
     param |-> 0, loaded |-> {}, ownTx |-> FALSE,
     data |-> [contact_id |-> 0, first_name |-> <<>>, contact_created_date |-> <<>>,
               law_firm_id |-> 0],
     pre |-> [contacts |-> {}, clients |-> [rows |-> {}, seq |-> 0]],
     result |-> NoResult,
     query |-> NoQuery, orderBy |-> "none", totalCount |-> 0, listing |-> <<>>]

Slots == DOMAIN req

\* mutant: the statement goes through the data source's own repository
Stmt_OutsideTx(r, op) == [op |-> op, tx |-> FALSE]

\* one statement sent to the storage, and whether it went through the
\* transactional entity manager of an open transaction
Stmt(r, op) == [op |-> op, tx |-> r.inTx]

HTTP_OK == 200
HTTP_BAD_REQUEST == 400
HTTP_NOT_FOUND == 404
HTTP_CONFLICT == 409
HTTP_INTERNAL_SERVER_ERROR == 500

\* tables the storage can hold when a behaviour starts: what earlier imports
\* of well-formed records leave behind
StoredContact(n, name) ==
    [contact_id |-> n, first_name |-> name, contact_created_date |-> D_GOOD, law_firm_id |-> 7]

InitialContacts ==
    { {}, {StoredContact(1, <<"a">>)}, {StoredContact(1, <<"b">>), StoredContact(2, <<"a">>)} }

InitialClients ==
    { [rows |-> {}, seq |-> 0],
      [rows |-> {[id |-> 1, client_id |-> 1, client_name |-> <<"a">>]}, seq |-> 1] }

InitialStores ==
    { <<c, [rows |-> {}, seq |-> 0]>> : c \in InitialContacts }
      \cup { <<{}, c>> : c \in InitialClients }

-----------------------------------------------------------------------------
(* ContactsController.uploadCsv / ClientsController.uploadCsv and            *)
(* CsvService.importContacts / importClients, one action per await          *)

\* a request arrives and is given the first slot that is free
Arrives(p) ==
    /\ req[p].pc = "idle"
    /\ \A q \in Slots : q < p => req[q].pc # "idle"
    /\ ops < MaxOps
    /\ ops' = ops + 1

\* the handler up to the transaction: the file check and the parse loop
Upload(p, kind, hasFile, file) ==
    /\ Arrives(p)
    /\ IF ~hasFile
       THEN /\ log' = Append(log, [kind |-> kind, file |-> <<>>, status |-> HTTP_BAD_REQUEST,
                                   result |-> NoResult, rows |-> 0,
                                   failedAt |-> "none", before |-> {}])
            /\ UNCHANGED req
       ELSE LET batch == IF kind = "contacts" THEN ParseContacts(file, 1, EmptyBatch)
                         ELSE ParseClients(file, 1, EmptyBatch)
            IN  /\ req' = [req EXCEPT ![p] =
                             [Idle EXCEPT !.kind = kind, !.pc = "begin", !.file = file,
                                          !.staged = batch.staged, !.errors = batch.errors,
                                          !.skipped = batch.skipped, !.consumed = batch.consumed,
                                          !.pre = Snapshot]]
                /\ UNCHANGED log
    /\ UNCHANGED <<contacts, clients, txStack>>

UploadContactsCsv(p) ==
    /\ log = <<>>
    /\ \E hasFile \in BOOLEAN :
       \E file \in (IF hasFile THEN ContactFiles ELSE {<<>>}) :
          Upload(p, "contacts", hasFile, file)

UploadClientsCsv(p) ==
    /\ log = <<>>
    /\ \E hasFile \in BOOLEAN :
       \E file \in (IF hasFile THEN ClientFiles ELSE {<<>>}) :
          Upload(p, "clients", hasFile, file)

\* the same file is uploaded again after the previous upload was answered
UploadAgain(p) ==
    /\ log # <<>>
    /\ log[Len(log)].status # HTTP_BAD_REQUEST
    /\ Upload(p, log[Len(log)].kind, TRUE, log[Len(log)].file)

\* dataSource.transaction(...): BEGIN TRANSACTION, or SAVEPOINT when the
\* connection already has a transaction open
StartTransaction(p, frame) ==
    /\ req[p].pc = "begin"
    /\ txStack' = Append(txStack, frame)
    /\ req' = [req EXCEPT ![p].inTx = TRUE,
                          ![p].pc = IF req[p].kind = "put" THEN "put_find"
                                    ELSE IF req[p].kind = "clients" /\ req[p].staged = <<>>
                                    THEN "commit" ELSE "probe"]
    /\ UNCHANGED <<contacts, clients, log, ops>>

TxBegin(p) == StartTransaction(p, Snapshot)

\* the same step, the frame also telling which request's call opened it
TxBeginBy(p) ==
    StartTransaction(p, [contacts |-> contacts, clients |-> clients, owner |-> p])

AfterInsert(r) == IF r.toUpdate # <<>> THEN "save" ELSE "commit"

AfterProbe(r) == IF r.toInsert # <<>> THEN "insert" ELSE AfterInsert(r)

\* importContacts: the find() and the partition that follows it
ProbeContacts(p) ==
    /\ req[p].pc = "probe"
    /\ req[p].kind = "contacts"
    /\ LET contactIds         == [i \in 1..Len(req[p].staged) |-> req[p].staged[i].contact_id]
           existingContactIds == FindContactIds(contacts, contactIds)
           parts == PartitionContacts(req[p].staged, existingContactIds,
                                      [toInsert |-> <<>>, toUpdate |-> <<>>])
           r     == [req[p] EXCEPT !.existing = existingContactIds,
                                   !.toInsert = parts.toInsert, !.toUpdate = parts.toUpdate,
                                   !.stmts = Append(@, Stmt(req[p], "find"))]
       IN  req' = [req EXCEPT ![p] = [r EXCEPT !.pc = AfterProbe(r)]]
    /\ UNCHANGED <<contacts, clients, txStack, log, ops>>

\* importContacts: contactRepository.insert(toInsert)
InsertContacts(p) ==
    /\ req[p].pc = "insert"
    /\ LET done == DbInsert(contacts, req[p].toInsert)
       IN  IF done.ok
           THEN /\ contacts' = done.tbl
                /\ req' = [req EXCEPT ![p].inserted = Len(req[p].toInsert),
                                      ![p].stmts = Append(@, Stmt(req[p], "insert")),
                                      ![p].pc = AfterInsert(req[p])]
           ELSE /\ contacts' = contacts
                /\ req' = [req EXCEPT ![p].stmts = Append(@, Stmt(req[p], "insert")),
                                      ![p].failedAt = "insert", ![p].pc = "rollback"]
    /\ UNCHANGED <<clients, txStack, log, ops>>

\* mutant: the statements ran outside a transaction, nothing is undone
RolledBack_Nothing(snapshot) == Snapshot

\* what ROLLBACK (ROLLBACK TO SAVEPOINT when nested) leaves in the tables
RolledBack(snapshot) == snapshot

\* the entities a save() of the request writes
SavingRows(r) == IF r.kind = "contacts" THEN r.toUpdate ELSE <<r.data>>

\* save(): the SELECT of the stored entities. Outside a transaction save()
\* opens one of its own around its statements.
SaveLoad(p) ==
    /\ req[p].pc = "save"
    /\ txStack' = IF txStack = <<>> THEN Append(txStack, Snapshot) ELSE txStack
    /\ req' = [req EXCEPT ![p].loaded = SaveLoaded(contacts, SavingRows(req[p])),
                          ![p].ownTx = (txStack = <<>>),
                          ![p].stmts = Append(@, Stmt(req[p], "save")),
                          ![p].pc = "save_write"]
    /\ UNCHANGED <<contacts, clients, log, ops>>

\* where the request goes on after its save()
AfterSave(r) == IF r.kind = "post" THEN "respond" ELSE "commit"

\* where the request goes on when its save() threw
AfterSaveFailed(r) == IF r.kind = "post" THEN "error" ELSE "rollback"

\* save(): the UPDATEs and INSERTs. The storage may fail after any number of
\* the rows were written, and fails at a row the primary key refuses.
SaveWrite(p) ==
    /\ req[p].pc = "save_write"
    /\ LET rows == SavingRows(req[p])
           Done(tbl, stack) ==
               /\ contacts' = tbl
               /\ txStack' = stack
               /\ req' = [req EXCEPT ![p].updated = IF req[p].kind = "contacts" THEN Len(rows) ELSE @,
                                     ![p].pc = AfterSave(req[p])]
               /\ UNCHANGED clients
           Failed(tbl) ==
               /\ IF req[p].ownTx
                  THEN LET restored == RolledBack(txStack[Len(txStack)])
                       IN  /\ contacts' = restored.contacts
                           /\ clients' = restored.clients
                           /\ txStack' = SubSeq(txStack, 1, Len(txStack) - 1)
                  ELSE /\ contacts' = tbl
                       /\ UNCHANGED <<clients, txStack>>
               /\ req' = [req EXCEPT ![p].failedAt = "save", ![p].pc = AfterSaveFailed(req[p])]
       IN  \/ LET w == SaveWritten(contacts, rows, req[p].loaded)
              IN  IF w.ok
                  THEN Done(w.tbl, IF req[p].ownTx THEN SubSeq(txStack, 1, Len(txStack) - 1)
                                   ELSE txStack)
                  ELSE Failed(w.tbl)
           \/ \E k \in 0..(Len(rows) - 1) :
                 Failed(SaveWritten(contacts, SubSeq(rows, 1, k), req[p].loaded).tbl)
    /\ UNCHANGED <<log, ops>>

\* importClients: the find() and the two counts
ProbeClients(p) ==
    /\ req[p].pc = "probe"
    /\ req[p].kind = "clients"
    /\ LET clientIds         == [i \in 1..Len(req[p].staged) |-> req[p].staged[i].client_id]
           existingClientIds == FindClientIds(clients, clientIds)
           inserted == Cardinality({ i \in 1..Len(req[p].staged) :
                                       req[p].staged[i].client_id \notin existingClientIds })
       IN  req' = [req EXCEPT ![p].existing = existingClientIds,
                              ![p].inserted = inserted,
                              ![p].updated = Len(req[p].staged) - inserted,
                              ![p].stmts = Append(@, Stmt(req[p], "find")),
                              ![p].pc = "upsert"]
    /\ UNCHANGED <<contacts, clients, txStack, log, ops>>

\* importClients: clientRepository.upsert(clients, ["client_id"])
UpsertClients(p) ==
    /\ req[p].pc = "upsert"
    /\ clients' = DbUpsertClients(clients, req[p].staged)
    /\ req' = [req EXCEPT ![p].stmts = Append(@, Stmt(req[p], "upsert")),
                          ![p].pc = "commit"]
    /\ UNCHANGED <<contacts, txStack, log, ops>>

\* the callback returned: COMMIT (RELEASE SAVEPOINT when nested), then the
\* CsvImportResult is built
TxCommit(p) ==
    /\ req[p].pc = "commit"
    /\ txStack' = SubSeq(txStack, 1, Len(txStack) - 1)
    /\ req' = [req EXCEPT ![p].inTx = FALSE, ![p].pc = "respond",
                          ![p].result = IF req[p].kind = "put" THEN NoResult
                                        ELSE CsvImportResult(req[p])]
    /\ UNCHANGED <<contacts, clients, log, ops>>

\* the callback threw: the transaction is rolled back and the error rethrown
TxRollback(p) ==
    /\ req[p].pc = "rollback"
    /\ LET restored == RolledBack(txStack[Len(txStack)])
       IN  /\ contacts' = restored.contacts
           /\ clients' = restored.clients
    /\ txStack' = SubSeq(txStack, 1, Len(txStack) - 1)
    /\ req' = [req EXCEPT ![p].inTx = FALSE, ![p].pc = "error"]
    /\ UNCHANGED <<log, ops>>

RowCount(kind) == IF kind = "clients" THEN Cardinality(clients.rows) ELSE Cardinality(contacts)

\* the keys the table of the request's entity held when the request arrived
KeysBefore(r) ==
    IF r.kind = "clients" THEN ClientKeys(r.pre.clients) ELSE Keys(r.pre.contacts)

\* ResponseBuilder.success, for uploadCsv with the result
RespondSuccess(p) ==
    /\ req[p].pc = "respond"
    /\ log' = Append(log, [kind |-> req[p].kind, file |-> req[p].file, status |-> HTTP_OK,
                           result |-> req[p].result, rows |-> RowCount(req[p].kind),
                           failedAt |-> req[p].failedAt, before |-> KeysBefore(req[p])])
    /\ req' = [req EXCEPT ![p] = Idle]
    /\ UNCHANGED <<contacts, clients, txStack, ops>>

\* mutant: the catch block does not tell the errors apart
ErrorStatus_AlwaysInternal(r) == HTTP_INTERNAL_SERVER_ERROR

\* the catch blocks: updateContact answers the two errors it throws itself
\* with notFound and conflict, everything else is an internalError
ErrorStatus(r) ==
    IF r.failedAt = "not_found" THEN HTTP_NOT_FOUND
    ELSE IF r.failedAt = "conflict" THEN HTTP_CONFLICT
    ELSE HTTP_INTERNAL_SERVER_ERROR

\* the catch block of the handler
RespondError(p) ==
    /\ req[p].pc = "error"
    /\ log' = Append(log, [kind |-> req[p].kind, file |-> req[p].file,
                           status |-> ErrorStatus(req[p]),
                           result |-> NoResult, rows |-> RowCount(req[p].kind),
                           failedAt |-> req[p].failedAt, before |-> KeysBefore(req[p])])
    /\ req' = [req EXCEPT ![p] = Idle]
    /\ UNCHANGED <<contacts, clients, txStack, ops>>

-----------------------------------------------------------------------------
(* ContactsController.createContact, updateContact and deleteContact, one    *)
(* action per await                                                          *)

\* getCurrentDateString() on the day the requests arrive
CurrentDateString == <<"0", "1", "/", "1", "5", "/", "2", "0", "2", "5">>

\* a request body; the client's contact_created_date is overwritten by both
\* handlers before it is looked at
Body(id, name) ==
    [contact_id |-> id, first_name |-> name, contact_created_date |-> <<>>,
     law_firm_id |-> JsonNumber(7)]

PostBodies ==
    { Body(JsonString(<<"2">>), <<"a">>), Body(JsonNumber(0), <<"a">>) }

PutParams == { <<"1">>, <<"0", "1">> }

PutBodies == { Body(JsonNumber(1), <<"b">>), Body(JsonNumber(2), <<"b">>) }

DeleteParams == { <<"2">>, <<"x">> }

\* the uploads that arrive next to other requests
RequestFiles ==
    { <<GoodRecord(1, <<"b">>), GoodRecord(2, <<"a">>)>> }

\* a request answered by the handler before it reached the storage or right
\* after its first query
Answered(p, kind, status) ==
    /\ log' = Append(log, [kind |-> kind, file |-> <<>>, status |-> status,
                           result |-> NoResult, rows |-> Cardinality(contacts),
                           failedAt |-> "none", before |-> {}])
    /\ UNCHANGED req

\* POST /api/contacts/upload next to other requests
ReceiveUpload(p) ==
    \E file \in RequestFiles : Upload(p, "contacts", TRUE, file)

\* createContact up to the answer of findOne
CreateContact(p) ==
    /\ Arrives(p)
    /\ \E body \in PostBodies :
         LET createContactDto == [body EXCEPT !.contact_created_date = CurrentDateString]
             validation       == validateContactData(createContactDto)
             sanitizedData    == validation.sanitizedData
             existingContact  == sanitizedData.contact_id \in Keys(contacts)
         IN  IF ~validation.isValid
             THEN Answered(p, "post", HTTP_BAD_REQUEST)
             ELSE /\ req' = [req EXCEPT ![p] =
                               [Idle EXCEPT !.kind = "post", !.data = sanitizedData,
                                            !.stmts = <<Stmt(Idle, "findOne")>>,
                                            !.pc = IF existingContact THEN "post_update"
                                                   ELSE "save"]]
                  /\ UNCHANGED log
    /\ UNCHANGED <<contacts, clients, txStack>>

\* createContact: contactRepository.update({ contact_id }, sanitizedData)
CreateUpdate(p) ==
    /\ req[p].pc = "post_update"
    /\ contacts' = UpdateRow(contacts, req[p].data)
    /\ req' = [req EXCEPT ![p].stmts = Append(@, Stmt(req[p], "update")),
                          ![p].pc = "respond"]
    /\ UNCHANGED <<clients, txStack, log, ops>>

\* updateContact up to the transaction: the parameter, the findOne that reads
\* the stored date, and the validation of the body
PreserveCreatedDate_KeepsSupplied(updateContactDto, existingContactForDate) ==
    updateContactDto

\* updateContactDto.contact_created_date = existingContactForDate.contact_created_date
PreserveCreatedDate(updateContactDto, existingContactForDate) ==
    [updateContactDto EXCEPT !.contact_created_date = existingContactForDate.contact_created_date]

\* the handler for one parameter and one body; started is the record of the
\* request when the handler starts
PutRequest(p, contactIdParam, body, started) ==
    LET contactId == ParseInt(contactIdParam).val
        existingContactForDate == { r \in contacts : r.contact_id = contactId }
        updateContactDto ==
            PreserveCreatedDate(body, CHOOSE r \in existingContactForDate : TRUE)
        validation == validateContactData(updateContactDto)
    IN  IF ~isPositiveIntegerText(contactIdParam)
        THEN Answered(p, "put", HTTP_BAD_REQUEST)
        ELSE IF existingContactForDate = {}
        THEN Answered(p, "put", HTTP_NOT_FOUND)
        ELSE IF ~validation.isValid
        THEN Answered(p, "put", HTTP_BAD_REQUEST)
        ELSE /\ req' = [req EXCEPT ![p] =
                          [started EXCEPT !.kind = "put", !.param = contactId,
                                          !.data = validation.sanitizedData,
                                          !.stmts = <<Stmt(Idle, "findOne")>>,
                                          !.pc = "begin"]]
             /\ UNCHANGED log

UpdateContact(p) ==
    /\ Arrives(p)
    /\ \E contactIdParam \in PutParams, body \in PutBodies :
          PutRequest(p, contactIdParam, body, Idle)
    /\ UNCHANGED <<contacts, clients, txStack>>

\* bodies with a contact_created_date of the client's
DatedPutBodies ==
    { [Body(id, <<"b">>) EXCEPT !.contact_created_date = date] :
        id \in {JsonNumber(1), JsonNumber(3)},
        date \in {<<>>, D_GOOD, <<"1", "2", "/", "3", "1", "/", "1", "9", "9", "9">>, <<"x">>} }

\* the same handler, the request keeping its body and the tables it found
UpdateContactDated(p) ==
    /\ Arrives(p)
    /\ \E contactIdParam \in {<<"1">>, <<"2">>}, body \in DatedPutBodies :
          PutRequest(p, contactIdParam, body, [Idle EXCEPT !.file = <<body>>, !.pre = Snapshot])
    /\ UNCHANGED <<contacts, clients, txStack>>

\* updateContact, in the transaction: findOne of the original contact
PutFindExisting(p) ==
    /\ req[p].pc = "put_find"
    /\ LET existingContact == req[p].param \in Keys(contacts)
           r == [req[p] EXCEPT !.stmts = Append(@, Stmt(req[p], "findOne"))]
       IN  req' = [req EXCEPT ![p] =
                     IF ~existingContact
                     THEN [r EXCEPT !.failedAt = "not_found", !.pc = "rollback"]
                     ELSE IF r.data.contact_id # r.param
                     THEN [r EXCEPT !.pc = "put_conflict"]
                     ELSE [r EXCEPT !.pc = "save"]]
    /\ UNCHANGED <<contacts, clients, txStack, log, ops>>

\* updateContact, in the transaction: findOne of a contact under the new key
PutFindConflicting(p) ==
    /\ req[p].pc = "put_conflict"
    /\ LET conflictingContact == req[p].data.contact_id \in Keys(contacts)
           r == [req[p] EXCEPT !.stmts = Append(@, Stmt(req[p], "findOne"))]
       IN  req' = [req EXCEPT ![p] =
                     IF conflictingContact
                     THEN [r EXCEPT !.failedAt = "conflict", !.pc = "rollback"]
                     ELSE [r EXCEPT !.pc = "put_delete"]]
    /\ UNCHANGED <<contacts, clients, txStack, log, ops>>

\* updateContact, in the transaction: delete of the record under the old key
PutDelete(p) ==
    /\ req[p].pc = "put_delete"
    /\ contacts' = DeleteRow(contacts, req[p].param)
    /\ req' = [req EXCEPT ![p].stmts = Append(@, Stmt(req[p], "delete")),
                          ![p].pc = "save"]
    /\ UNCHANGED <<clients, txStack, log, ops>>

\* deleteContact up to the answer of findOne
DeleteContact(p) ==
    /\ Arrives(p)
    /\ \E contactIdParam \in DeleteParams :
         LET contactId == ParseInt(contactIdParam).val
             existingContact == contactId \in Keys(contacts)
         IN  IF ~isPositiveIntegerText(contactIdParam)
             THEN Answered(p, "delete", HTTP_BAD_REQUEST)
             ELSE IF ~existingContact
             THEN Answered(p, "delete", HTTP_NOT_FOUND)
             ELSE /\ req' = [req EXCEPT ![p] =
                               [Idle EXCEPT !.kind = "delete", !.param = contactId,
                                            !.stmts = <<Stmt(Idle, "findOne")>>,
                                            !.pc = "delete_write"]]
                  /\ UNCHANGED log
    /\ UNCHANGED <<contacts, clients, txStack>>

\* deleteContact: contactRepository.delete({ contact_id: contactId })
DeleteWrite(p) ==
    /\ req[p].pc = "delete_write"
    /\ contacts' = DeleteRow(contacts, req[p].param)
    /\ req' = [req EXCEPT ![p].stmts = Append(@, Stmt(req[p], "delete")),
                          ![p].pc = "respond"]
    /\ UNCHANGED <<clients, txStack, log, ops>>

-----------------------------------------------------------------------------
(* ContactsController.getContacts: the listing, its order and its page       *)

DEFAULT_PAGE_SIZE == 20
MAX_PAGE_SIZE == 100

ALLOWED_SORT_FIELDS ==
    { "contact_id", "first_name", "last_name", "program", "email_address", "phone",
      "contact_created_date", "action", "law_firm_id", "law_firm_name" }

\* the columns of the Contact entity
ContactColumns ==
    { "contact_id", "first_name", "last_name", "program", "email_address", "phone",
      "contact_created_date", "law_firm_id", "law_firm_name" }

\* the query strings of the requests; the search term is always absent
GetQueries ==
    [ page : { <<>>, <<"1">> }, pageSize : { <<>>, <<"1">> },
      sortField : { "", "first_name", "droptable" },
      sortOrder : { "", "asc", "desc", "up" } ]

\* Number.parseInt(text, 10) || fallback
ParseIntOr(text, fallback) ==
    LET n == ParseInt(text) IN IF n.nan \/ n.val = 0 THEN fallback ELSE n.val

Min(a, b) == IF a <= b THEN a ELSE b

\* Number.parseInt(req.query.page, 10) || 0
EffectivePage(query) == ParseIntOr(query.page, 0)

\* Math.min(Number.parseInt(req.query.pageSize, 10) || DEFAULT_PAGE_SIZE, MAX_PAGE_SIZE)
EffectivePageSize(query) ==
    Min(ParseIntOr(query.pageSize, DEFAULT_PAGE_SIZE), MAX_PAGE_SIZE)

\* requestedSortOrder === "asc" || requestedSortOrder === "desc"
HasSortOrder(query) == query.sortOrder \in {"asc", "desc"}

\* requestedSortOrder === "desc" ? "DESC" : "ASC"
SortOrder(query) == IF query.sortOrder = "desc" THEN "DESC" ELSE "ASC"

\* mutant: the requested field is taken as it comes
SortField_Unchecked(query) == IF query.sortField = "" THEN "contact_id" ELSE query.sortField

\* the requested field when the allow-list has it, contact_id otherwise
SortField(query) ==
    LET requestedSortField == IF query.sortField = "" THEN "contact_id" ELSE query.sortField
    IN  IF requestedSortField \in ALLOWED_SORT_FIELDS THEN requestedSortField
        ELSE "contact_id"

\* the characters of the stored texts in the order of their codes
CodeOrder == <<" ", "/", "0", "1", "2", "3", "4", "5", "6", "7", "8", "9", "a", "b">>

CharCode(c) == CHOOSE i \in 1..Len(CodeOrder) : CodeOrder[i] = c

\* the BINARY collation of two texts
RECURSIVE TextLess(_, _)
TextLess(s, t) ==
    IF t = <<>> THEN FALSE
    ELSE IF s = <<>> THEN TRUE
    ELSE IF Head(s) = Head(t) THEN TextLess(Tail(s), Tail(t))
    ELSE CharCode(Head(s)) < CharCode(Head(t))

\* r1 sorts strictly before r2 under ORDER BY column ASC; the columns the
\* rows of the model do not carry hold the same value in every row
Before(r1, r2, column) ==
    IF column \in {"contact_id", "law_firm_id"} THEN r1[column] < r2[column]
    ELSE IF column \in {"first_name", "contact_created_date"}
    THEN TextLess(r1[column], r2[column])
    ELSE FALSE

\* the enumerations of a set of rows
Orderings(rows) ==
    { s \in [1..Cardinality(rows) -> rows] :
        \A i, j \in 1..Cardinality(rows) : i # j => s[i] # s[j] }

\* the rows come in the order the statement asks for. Without ORDER BY the
\* table, whose primary key is the integer column contact_id, is scanned in
\* the order of that key.
InOrder(s, column, direction) ==
    \A i, j \in 1..Len(s) :
        i < j => IF direction = "ASC" THEN ~Before(s[j], s[i], column)
                 ELSE ~Before(s[i], s[j], column)

\* skip(page * pageSize).take(pageSize)
PageOf(s, page, pageSize) ==
    SubSeq(s, page * pageSize + 1, Min(Len(s), (page + 1) * pageSize))

\* getContacts up to the answer of getCount()
GetContacts(p) ==
    /\ Arrives(p)
    /\ \E query \in GetQueries :
          req' = [req EXCEPT ![p] =
                    [Idle EXCEPT !.kind = "get", !.query = query,
                                 !.totalCount = Cardinality(contacts),
                                 !.stmts = <<Stmt(Idle, "getCount")>>,
                                 !.pc = "get_many"]]
    /\ UNCHANGED <<contacts, clients, txStack, log>>

\* getContacts: orderBy when a sort order was asked for, then getMany(). A
\* column reference the entity does not have makes the statement fail.
GetMany(p) ==
    /\ req[p].pc = "get_many"
    /\ LET query    == req[p].query
           page     == EffectivePage(query)
           pageSize == EffectivePageSize(query)
           orderBy  == IF HasSortOrder(query) THEN SortField(query) ELSE "none"
           r        == [req[p] EXCEPT !.orderBy = orderBy,
                                      !.stmts = Append(@, Stmt(req[p], "getMany"))]
       IN  IF orderBy # "none" /\ orderBy \notin ContactColumns
           THEN req' = [req EXCEPT ![p] = [r EXCEPT !.failedAt = "query", !.pc = "error"]]
           ELSE \E s \in Orderings(contacts) :
                   /\ IF orderBy = "none" THEN InOrder(s, "contact_id", "ASC")
                      ELSE InOrder(s, orderBy, SortOrder(query))
                   /\ req' = [req EXCEPT ![p] =
                                [r EXCEPT !.listing = PageOf(s, page, pageSize),
                                          !.pc = "respond"]]
    /\ UNCHANGED <<contacts, clients, txStack, log, ops>>

-----------------------------------------------------------------------------
(* CSV text: what exportContacts writes and what the parser of               *)
(* importContacts reads. A text is a sequence of characters; the byte order  *)
(* mark and each column name are written as one symbol.                      *)

BOM == "BOM"

\* the columns of the export that the rows of the model carry
ExportHeaders == <<"contact_id", "first_name", "contact_created_date", "law_firm_id">>

\* String(value) for the value of a column of a row: the integer columns
\* are written in decimal, the text columns are texts already
StringOf(row, column) ==
    IF column \in {"contact_id", "law_firm_id"} THEN NumberToString(row[column])
    ELSE row[column]

\* valueString.replaceAll('"', '""')
RECURSIVE DoubleQuotes(_)
DoubleQuotes(s) ==
    IF s = <<>> THEN <<>>
    ELSE (IF Head(s) = "\"" THEN <<"\"", "\"">> ELSE <<Head(s)>>) \o DoubleQuotes(Tail(s))

\* mutant: a double quote alone does not make the field quoted
NeedsQuotes_NoQuoteChar(s) == \E i \in 1..Len(s) : s[i] \in {",", "\r", "\n"}

\* /[",\r\n]/.test(valueString)
NeedsQuotes(s) == \E i \in 1..Len(s) : s[i] \in {"\"", ",", "\r", "\n"}

\* escapeCsvValue from const escapedValue on
escapeCsvValue(valueString) ==
    LET escapedValue == DoubleQuotes(valueString)
    IN  IF NeedsQuotes(valueString) THEN <<"\"">> \o escapedValue \o <<"\"">>
        ELSE escapedValue

\* Array.prototype.join
RECURSIVE Join(_, _)
Join(parts, sep) ==
    IF parts = <<>> THEN <<>>
    ELSE IF Len(parts) = 1 THEN parts[1]
    ELSE parts[1] \o sep \o Join(Tail(parts), sep)

\* contactRepository.find(): the rows of the table in the order of its
\* primary key
RECURSIVE RowsInKeyOrder(_)
RowsInKeyOrder(tbl) ==
    IF tbl = {} THEN <<>>
    ELSE LET first == CHOOSE r \in tbl : \A o \in tbl : r.contact_id <= o.contact_id
         IN  <<first>> \o RowsInKeyOrder(tbl \ {first})

\* csvContent of exportContacts
CsvContent(rows) ==
    LET headers  == [i \in 1..Len(ExportHeaders) |-> <<ExportHeaders[i]>>]
        Line(r)  == Join([i \in 1..Len(ExportHeaders) |-> escapeCsvValue(StringOf(r, ExportHeaders[i]))],
                         <<",">>)
        csvLines == <<Join(headers, <<",">>)>> \o [i \in 1..Len(rows) |-> Line(rows[i])]
    IN  <<BOM>> \o Join(csvLines, <<"\r", "\n">>)

\* the characters the option trim: true removes around a field
TrimChars == {" ", "\t"}

RECURSIVE TrimField(_)
TrimField(s) ==
    IF s # <<>> /\ Head(s) \in TrimChars THEN TrimField(Tail(s))
    ELSE IF s # <<>> /\ s[Len(s)] \in TrimChars THEN TrimField(SubSeq(s, 1, Len(s) - 1))
    ELSE s

\* the parser before the first character
ParserStart ==
    [field |-> <<>>, quoting |-> FALSE, wasQuoted |-> FALSE, fields |-> <<>>,
     records |-> <<>>, ok |-> TRUE]

\* the field read so far is complete: a quoted field keeps its characters,
\* an unquoted one is trimmed
EndField(st) ==
    [st EXCEPT !.fields = Append(@, IF st.wasQuoted THEN st.field ELSE TrimField(st.field)),
               !.field = <<>>, !.wasQuoted = FALSE]

\* the record read so far is complete; skip_empty_lines drops a line that
\* has no character
EndRecord(st) ==
    LET done == EndField(st)
    IN  IF st.fields = <<>> /\ st.field = <<>> /\ ~st.wasQuoted
        THEN [done EXCEPT !.fields = <<>>]
        ELSE [done EXCEPT !.fields = <<>>, !.records = Append(@, done.fields)]

\* the parser reads character c, which is followed by next: the state it
\* is in afterwards and the number of characters it has consumed
ReadChar(st, c, next) ==
    CASE st.quoting /\ c = "\"" /\ next = "\"" ->
            [st |-> [st EXCEPT !.field = Append(@, "\"")], read |-> 2]
      [] st.quoting /\ c = "\"" /\ next # "\"" ->
            [st |-> [st EXCEPT !.quoting = FALSE, !.wasQuoted = TRUE], read |-> 1]
      [] st.quoting /\ c # "\"" ->
            [st |-> [st EXCEPT !.field = Append(@, c)], read |-> 1]
      [] ~st.quoting /\ c = "\"" ->
            [st |-> IF TrimField(st.field) = <<>> /\ ~st.wasQuoted
                    THEN [st EXCEPT !.field = <<>>, !.quoting = TRUE]
                    ELSE [st EXCEPT !.ok = FALSE],
             read |-> 1]
      [] ~st.quoting /\ c = "," ->
            [st |-> EndField(st), read |-> 1]
      [] ~st.quoting /\ c = "\r" /\ next = "\n" ->
            [st |-> EndRecord(st), read |-> 2]
      [] ~st.quoting /\ c = "\r" /\ next # "\n" ->
            [st |-> EndRecord(st), read |-> 1]
      [] ~st.quoting /\ c = "\n" ->
            [st |-> EndRecord(st), read |-> 1]
      [] OTHER ->
            [st |-> IF ~st.wasQuoted THEN [st EXCEPT !.field = Append(@, c)]
                    ELSE IF c \in TrimChars THEN st
                    ELSE [st EXCEPT !.ok = FALSE],
             read |-> 1]

\* parse(fileBuffer, { trim: true, quote: '"', escape: '"',
\* skip_empty_lines: true }) from character i on: the records as sequences
\* of fields. "\r\n", "\n" and "\r" end a record outside quotes; a quote
\* inside an unquoted field, a character after a closing quote and a quote
\* left open are errors.
RECURSIVE ParseText(_, _, _)
ParseText(text, i, st) ==
    IF ~st.ok THEN st
    ELSE IF i > Len(text)
    THEN (IF st.quoting THEN [st EXCEPT !.ok = FALSE]
          ELSE IF st.fields = <<>> /\ st.field = <<>> /\ ~st.wasQuoted THEN st
          ELSE EndRecord(st))
    ELSE LET step == ReadChar(st, text[i], IF i < Len(text) THEN text[i + 1] ELSE "")
         IN  ParseText(text, i + step.read, step.st)

\* columns: true: the first record names the columns, every later record
\* becomes an object keyed by them and must have as many fields; bom: true
\* skips a leading byte order mark
ParseCsv(text) ==
    LET start  == IF text # <<>> /\ text[1] = BOM THEN 2 ELSE 1
        parsed == ParseText(text, start, ParserStart)
        header == IF parsed.records = <<>> THEN <<>> ELSE parsed.records[1]
        body   == IF parsed.records = <<>> THEN <<>> ELSE Tail(parsed.records)
        Column(record, name) ==
            IF \E k \in 1..Len(header) : header[k] = <<name>>
            THEN record[CHOOSE k \in 1..Len(header) : header[k] = <<name>>]
            ELSE <<>>
        Object(record) ==
            [contact_id           |-> Column(record, "contact_id"),
             first_name           |-> Column(record, "first_name"),
             contact_created_date |-> Column(record, "contact_created_date"),
             law_firm_id          |-> Column(record, "law_firm_id")]
    IN  [ok      |-> parsed.ok /\ \A k \in 1..Len(body) : Len(body[k]) = Len(header),
         records |-> [k \in 1..Len(body) |-> Object(body[k])]]

-----------------------------------------------------------------------------
(* ContactsController.exportCsv / CsvService.exportContacts, and uploads of  *)
(* files whose keys overlap                                                  *)

\* exportCsv: contactRepository.find() and the CSV text made of its rows. The
\* rows the request was given are kept in pre.contacts.
ExportContacts(p) ==
    /\ Arrives(p)
    /\ req' = [req EXCEPT ![p] =
                 [Idle EXCEPT !.kind = "export", !.pre = Snapshot,
                              !.result = [content |-> CsvContent(RowsInKeyOrder(contacts)),
                                          recordCount |-> Cardinality(contacts)],
                              !.stmts = <<Stmt(Idle, "find")>>, !.pc = "respond"]]
    /\ UNCHANGED <<contacts, clients, txStack, log>>

\* mutant: the rows come in the order of their generated id
ClientsInOrder_ById(rows) ==
    LET n == Cardinality(rows)
    IN  CHOOSE s \in [1..n -> rows] :
            /\ \A r \in rows : \E i \in 1..n : s[i] = r
            /\ \A i, j \in 1..n : i < j => s[i].id < s[j].id

\* clientRepository.find({ order: { client_id: "ASC" } })
ClientsInOrder(rows) ==
    LET n == Cardinality(rows)
    IN  CHOOSE s \in [1..n -> rows] :
            /\ \A r \in rows : \E i \in 1..n : s[i] = r
            /\ \A i, j \in 1..n : i < j => s[i].client_id <= s[j].client_id

\* csvContent of exportClients
ClientsCsvContent(rows) ==
    LET Line(r)  == Join(<<escapeCsvValue(NumberToString(r.client_id)),
                           escapeCsvValue(r.client_name)>>, <<",">>)
        csvLines == <<Join(<<<<"client_id">>, <<"client_name">>>>, <<",">>)>>
                      \o [i \in 1..Len(rows) |-> Line(rows[i])]
    IN  <<BOM>> \o Join(csvLines, <<"\r", "\n">>)

\* CsvService.exportClients
ExportClients(p) ==
    /\ Arrives(p)
    /\ req' = [req EXCEPT ![p] =
                 [Idle EXCEPT !.kind = "exportClients", !.pre = Snapshot,
                              !.result = [content |-> ClientsCsvContent(ClientsInOrder(clients.rows)),
                                          recordCount |-> Cardinality(clients.rows)],
                              !.stmts = <<Stmt(Idle, "find")>>, !.pc = "respond"]]
    /\ UNCHANGED <<contacts, clients, txStack, log>>

\* two files that share key 2
OverlapFiles ==
    { <<GoodRecord(1, <<"b">>), GoodRecord(2, <<"a">>)>>,
      <<GoodRecord(2, <<"b">>), GoodRecord(3, <<"a">>)>> }

\* POST /api/contacts/upload with one of the overlapping files
ReceiveOverlapUpload(p) ==
    \E file \in OverlapFiles : Upload(p, "contacts", TRUE, file)

-----------------------------------------------------------------------------
(* importContacts on a byte stream the CSV parser cannot read to its end     *)

\* mutant: the error of the parser is swallowed and the call goes on with
\* the rows read so far
ParseFailed_KeepsRows(r) == [r EXCEPT !.failedAt = "parse", !.pc = "begin"]

\* the parser throws out of the for-await loop: importContacts has no catch,
\* the error leaves it before dataSource.transaction is reached and lands in
\* the catch block of uploadCsv
ParseFailed(r) == [r EXCEPT !.failedAt = "parse", !.pc = "error"]

\* POST /api/contacts/upload with a file whose records `file` are well formed
\* and are followed by bytes the parser raises an error at. The loop body
\* runs for the records the parser hands over. When the loop leaves at the
\* batch limit before the parser was asked for the malformed record, whether
\* the parser has already raised depends on how far it has read ahead: both
\* outcomes are possible.
UploadMalformedCsv(p) ==
    /\ log = <<>>
    /\ Arrives(p)
    /\ \E file \in ContactFiles, readAhead \in BOOLEAN :
          LET batch  == ParseContacts(file, 1, EmptyBatch)
              broke  == batch.consumed < Len(file)
              parsed == [Idle EXCEPT !.kind = "contacts", !.pc = "begin", !.file = file,
                                     !.staged = batch.staged, !.errors = batch.errors,
                                     !.skipped = batch.skipped, !.consumed = batch.consumed,
                                     !.pre = Snapshot]
          IN  req' = [req EXCEPT ![p] = IF broke /\ ~readAhead THEN parsed
                                        ELSE ParseFailed(parsed)]
    /\ UNCHANGED <<contacts, clients, txStack, log>>

-----------------------------------------------------------------------------
(* An exported file uploaded to an empty store                               *)

\* first names as importContacts stores them: the text of the field as the
\* parser delivered it, which for a quoted field is every character between
\* the quotes
StoredNames ==
    { <<"a">>, <<"a", ",", "b">>, <<"a", "\"", "b">>, <<"a", "\n", "b">>,
      <<" ", "a">>, <<"a", " ">> }

StoredDatasets ==
    { {} }
    \cup { {StoredContact(k, n)} : k \in {1, 2}, n \in StoredNames }
    \cup { {StoredContact(1, n1), StoredContact(2, n2)} : n1 \in StoredNames, n2 \in StoredNames }

\* POST /api/contacts/upload with the file the last export answered, on an
\* installation whose contacts table is empty: the table is replaced by the
\* empty one and the exported dataset stays in pre
UploadToEmptyStore(p) ==
    /\ Arrives(p)
    /\ log # <<>>
    /\ log[Len(log)].kind = "export"
    /\ LET parsed  == ParseCsv(log[Len(log)].result.content)
           batch   == ParseContacts(parsed.records, 1, EmptyBatch)
           arrived == [Idle EXCEPT !.kind = "contacts", !.pc = "begin",
                                   !.file = parsed.records,
                                   !.pre = Snapshot]
       IN  req' = [req EXCEPT ![p] =
                     IF ~parsed.ok THEN ParseFailed(arrived)
                     ELSE [arrived EXCEPT !.staged = batch.staged, !.errors = batch.errors,
                                          !.skipped = batch.skipped,
                                          !.consumed = batch.consumed]]
    /\ contacts' = {}
    /\ UNCHANGED <<clients, txStack, log>>

-----------------------------------------------------------------------------
(* The validators called on their own                                        *)

\* the records validateContactData is given
ValidatorInputs ==
    [ contact_id : { JsonNumber(1), JsonNumber(0), JsonNumber(-1), JsonString(<<>>),
                     JsonString(<<"x">>) },
      first_name : { <<>>, <<" ">>, <<"a">> },
      contact_created_date : { <<>>, <<"1", "/", "1", "/", "2", "0", "2", "4">>,
                               <<"2", "/", "3", "0", "/", "2", "0", "2", "4">>,
                               <<"1", "3", "/", "1", "/", "2", "0", "2", "4">> },
      law_firm_id : { JsonNumber(7), JsonNumber(0), JsonString(<<"7">>) } ]

\* the texts isValidDateFormat is given: month/day/year
DateTexts ==
    { m \o <<"/">> \o d \o <<"/">> \o y :
        m \in { <<"1">>, <<"0", "1">>, <<"2">>, <<"4">>, <<"1", "3">>, <<"0">> },
        d \in { <<"1">>, <<"0", "1">>, <<"2", "9">>, <<"3", "0">>, <<"3", "1">>, <<"3", "2">> },
        y \in { <<"2", "0", "2", "4">>, <<"2", "0", "2", "3">>, <<"1", "9", "0", "0">>,
                <<"2", "0", "0", "0">>, <<"0", "0", "5", "0">>, <<"2", "4">> } }
    \cup { <<>>, <<"1", "/", "1">>, <<"1", "-", "1", "-", "2", "0", "2", "4">> }

\* validateContactData(data): the record is kept in file, what the function
\* returned in result
ValidateContact(p) ==
    /\ Arrives(p)
    /\ \E data \in ValidatorInputs :
          req' = [req EXCEPT ![p] =
                    [Idle EXCEPT !.kind = "validate", !.file = <<data>>,
                                 !.result = validateContactData(data),
                                 !.pc = "returned"]]
    /\ UNCHANGED <<contacts, clients, txStack, log>>

\* isValidDateFormat(dateStr): the text is kept in file, the answer in result
CheckDate(p) ==
    /\ Arrives(p)
    /\ \E dateStr \in DateTexts :
          req' = [req EXCEPT ![p] =
                    [Idle EXCEPT !.kind = "date", !.file = <<dateStr>>,
                                 !.result = [accepted |-> isValidDateFormat(dateStr)],
                                 !.pc = "returned"]]
    /\ UNCHANGED <<contacts, clients, txStack, log>>

\* ERROR_MESSAGES, a text being the sequence of its words, blanks, line
\* breaks and slashes
GENERIC_ERROR ==
    <<"An", " ", "error", " ", "occurred", " ", "while", " ", "processing", " ",
      "your", " ", "request">>

CONTACT_NOT_FOUND == <<"Contact", " ", "not", " ", "found">>

CONTACT_ID_EXISTS ==
    <<"Contact", " ", "ID", " ", "already", " ", "exists.", " ", "Please", " ",
      "choose", " ", "a", " ", "different", " ", "ID.">>

\* \s of a regular expression
IsWhite(t) == t \in {" ", "\t", "\n", "\r"}

\* the last index of the line that index i is on
EndOfLine(ts, i) ==
    IF \E k \in i..Len(ts) : ts[k] = "\n"
    THEN (CHOOSE k \in i..Len(ts) : ts[k] = "\n" /\ \A j \in i..(k - 1) : ts[j] # "\n") - 1
    ELSE Len(ts)

\* message.replaceAll(/\s+at\s+.*$/gm, ""): white space, the word at, white
\* space and the rest of the line the match has reached are removed
RECURSIVE RemoveStackFrames(_)
RemoveStackFrames(ts) ==
    LET Starts(i) ==
            /\ IsWhite(ts[i])
            /\ \E j \in (i + 1)..(Len(ts) - 1) :
                  /\ \A k \in i..(j - 1) : IsWhite(ts[k])
                  /\ ts[j] = "at"
                  /\ IsWhite(ts[j + 1])
        AtOf(i) == CHOOSE j \in (i + 1)..(Len(ts) - 1) :
                      /\ \A k \in i..(j - 1) : IsWhite(ts[k])
                      /\ ts[j] = "at"
        RunEnd(j) == CHOOSE k \in j..Len(ts) :
                        /\ \A m \in j..k : IsWhite(ts[m])
                        /\ (k = Len(ts) \/ ~IsWhite(ts[k + 1]))
    IN  IF \E i \in 1..Len(ts) : Starts(i)
        THEN LET i   == CHOOSE i \in 1..Len(ts) :
                            Starts(i) /\ \A h \in 1..(i - 1) : ~Starts(h)
                 k   == RunEnd(AtOf(i) + 1)
                 end == IF k = Len(ts) THEN k ELSE EndOfLine(ts, k + 1)
             IN  SubSeq(ts, 1, i - 1) \o RemoveStackFrames(SubSeq(ts, end + 1, Len(ts)))
        ELSE ts

\* message.replaceAll(/\/.*\//g, ""): on every line, what stands between
\* its first and its last slash goes, the two slashes included
RECURSIVE RemovePaths(_)
RemovePaths(ts) ==
    LET Slashes == { i \in 1..Len(ts) :
                       /\ ts[i] = "/"
                       /\ \E j \in (i + 1)..EndOfLine(ts, i) : ts[j] = "/" }
    IN  IF Slashes = {} THEN ts
        ELSE LET a == CHOOSE i \in Slashes : \A h \in Slashes : i <= h
                 b == CHOOSE j \in (a + 1)..EndOfLine(ts, a) :
                         ts[j] = "/" /\ \A h \in (j + 1)..EndOfLine(ts, a) : ts[h] # "/"
             IN  SubSeq(ts, 1, a - 1) \o RemovePaths(SubSeq(ts, b + 1, Len(ts)))

\* String.prototype.trim on a text of words
RECURSIVE TrimWords(_)
TrimWords(ts) ==
    IF ts # <<>> /\ IsWhite(Head(ts)) THEN TrimWords(Tail(ts))
    ELSE IF ts # <<>> /\ IsWhite(ts[Len(ts)]) THEN TrimWords(SubSeq(ts, 1, Len(ts) - 1))
    ELSE ts

\* ResponseBuilder.sanitizeErrorMessage
sanitizeErrorMessage(message) == TrimWords(RemovePaths(RemoveStackFrames(message)))

\* ResponseBuilder.error: what the client is sent
Error(message, statusCode) ==
    [status |-> statusCode, success |-> FALSE, message |-> sanitizeErrorMessage(message)]

\* mutant: the message of the caught error is sent
internalError_SendsCaught(error) == Error(error.message, HTTP_INTERNAL_SERVER_ERROR)

\* ResponseBuilder.internalError: the error goes to the console only
internalError(error) == Error(GENERIC_ERROR, HTTP_INTERNAL_SERVER_ERROR)

\* the handlers with a catch block
Handlers ==
    {"getContacts", "uploadCsv", "exportCsv", "createContact", "updateContact",
     "deleteContact", "createClient"}

\* what a failing storage call or the CSV parser throws: an Error with the
\* text of the library, or a value that is no Error
UnexpectedErrors ==
    { [isError |-> TRUE, message |-> m] :
        m \in { <<"SQLITE_CONSTRAINT:", " ", "UNIQUE", " ", "constraint", " ", "failed:", " ",
                  "contacts.contact_id">>,
                <<"Invalid", " ", "Record", " ", "Length:", " ", "expect", " ", "9,", " ",
                  "got", " ", "2">>,
                <<"disk", " ", "I", "/", "O", " ", "error", "\n", " ", " ", "at", " ",
                  "/", "app", "/", "csv.js:97">>,
                <<>> } }
      \cup { [isError |-> FALSE, message |-> <<"busy">>] }

\* what the transaction callback of updateContact throws itself
ThrownByHandler ==
    { [isError |-> TRUE, message |-> CONTACT_NOT_FOUND],
      [isError |-> TRUE, message |-> CONTACT_ID_EXISTS] }

\* catch (error) { ... } of the handlers
CatchBlock(handler, error) ==
    IF error.isError
    THEN IF handler = "updateContact" /\ error.message = CONTACT_NOT_FOUND
         THEN Error(error.message, HTTP_NOT_FOUND)
         ELSE IF handler = "updateContact" /\ error.message = CONTACT_ID_EXISTS
         THEN Error(error.message, HTTP_CONFLICT)
         ELSE internalError(error)
    ELSE internalError([isError |-> TRUE,
                        message |-> <<"An", " ", "unknown", " ", "error", " ", "occurred">>])

\* the same handler fails at the same place in two runs that differ in what
\* is thrown; file keeps the two errors, result the two responses
CatchError(p) ==
    /\ Arrives(p)
    /\ \E handler \in Handlers :
       \E first \in UnexpectedErrors \cup (IF handler = "updateContact" THEN ThrownByHandler ELSE {}) :
       \E second \in UnexpectedErrors :
          req' = [req EXCEPT ![p] =
                    [Idle EXCEPT !.kind = "catch", !.file = <<first, second>>,
                                 !.result = [handler |-> handler,
                                             first   |-> CatchBlock(handler, first),
                                             second  |-> CatchBlock(handler, second)],
                                 !.pc = "returned"]]
    /\ UNCHANGED <<contacts, clients, txStack, log>>

-----------------------------------------------------------------------------
(* ClientsController.createClient                                            *)

HTTP_CREATED == 201

CLIENT_ID_EXISTS == <<"Client", " ", "ID", " ", "already", " ", "exists">>

\* validateClientData: isValid and sanitizedData
validateClientData(data) ==
    LET sanitizedData == [client_id   |-> sanitizeInteger(data.client_id),
                          client_name |-> sanitizeString(data.client_name)]
        required == sanitizedData.client_id = 0 \/ Trim(sanitizedData.client_name) = <<>>
    IN  [isValid       |-> ~required /\ isPositiveIntegerNumber(sanitizedData.client_id),
         sanitizedData |-> sanitizedData]

\* the bodies of POST /api/clients
ClientBodies ==
    { [client_id |-> id, client_name |-> name] :
        id \in {JsonNumber(1), JsonNumber(2), JsonString(<<"x">>)}, name \in {<<"a">>, <<"b">>} }

\* res.status(...).json(...) of createClient: the entry keeps the body, the
\* response and the client_id values stored before the step; the messages
\* of a refused body are not told apart
ClientAnswered(body, response) ==
    Append(log, [kind |-> "createClient", file |-> <<body>>, status |-> response.status,
                 result |-> response, rows |-> Cardinality(clients.rows),
                 failedAt |-> "none", before |-> ClientKeys(clients)])

\* createClient up to the answer of findOne
CreateClient(p) ==
    /\ Arrives(p)
    /\ \E body \in ClientBodies :
         LET validation     == validateClientData(body)
             sanitizedData  == validation.sanitizedData
             existingClient == sanitizedData.client_id \in ClientKeys(clients)
         IN  IF ~validation.isValid
             THEN /\ log' = ClientAnswered(body, [status |-> HTTP_BAD_REQUEST, success |-> FALSE,
                                                  message |-> <<"invalid">>])
                  /\ UNCHANGED req
             ELSE IF existingClient
             THEN /\ log' = ClientAnswered(body, Error(CLIENT_ID_EXISTS, HTTP_BAD_REQUEST))
                  /\ UNCHANGED req
             ELSE /\ req' = [req EXCEPT ![p] =
                               [Idle EXCEPT !.kind = "createClient", !.file = <<body>>,
                                            !.data = [Idle.data EXCEPT !.contact_id = sanitizedData.client_id,
                                                                       !.first_name = sanitizedData.client_name],
                                            !.stmts = <<Stmt(Idle, "findOne")>>,
                                            !.pc = "client_save"]]
                  /\ UNCHANGED log
    /\ UNCHANGED <<contacts, clients, txStack>>

\* await clientRepository.save(newClient) and the response after it: the
\* INSERT is refused when the unique client_id is taken, the error is caught
ClientSave(p) ==
    /\ req[p].pc = "client_save"
    /\ IF req[p].data.contact_id \in ClientKeys(clients)
       THEN /\ log' = ClientAnswered(req[p].file[1],
                                     CatchBlock("createClient",
                                                [isError |-> TRUE,
                                                 message |-> <<"SQLITE_CONSTRAINT:", " ", "UNIQUE">>]))
            /\ UNCHANGED clients
       ELSE /\ clients' = [rows |-> clients.rows \cup
                                      {[id |-> clients.seq + 1,
                                        client_id |-> req[p].data.contact_id,
                                        client_name |-> req[p].data.first_name]},
                           seq |-> clients.seq + 1]
            /\ log' = ClientAnswered(req[p].file[1],
                                     [status |-> HTTP_CREATED, success |-> TRUE,
                                      message |-> <<"Client ID added successfully">>])
    /\ req' = [req EXCEPT ![p] = Idle]
    /\ UNCHANGED <<contacts, txStack, ops>>

\* page and pageSize of a query string: missing, zero, negative, not a
\* number, in range, above the maximum
PageTexts ==
    { <<>>, <<"0">>, <<"-", "1">>, <<"-", "5">>, <<"x">>, <<"3">>, <<"2", "0">>,
      <<"1", "0", "0">>, <<"1", "0", "1">>, <<"5", "0", "0">>, <<"7", "x">> }

\* getContacts: page, pageSize and the argument of skip(); query keeps the query string
Paginate(p) ==
    /\ Arrives(p)
    /\ \E page \in PageTexts, pageSize \in PageTexts :
         LET query == [NoQuery EXCEPT !.page = page, !.pageSize = pageSize]
         IN  req' = [req EXCEPT ![p] =
                       [Idle EXCEPT !.kind = "paginate", !.query = query,
                                    !.result = [page     |-> EffectivePage(query),
                                                pageSize |-> EffectivePageSize(query),
                                                skip     |-> EffectivePage(query)
                                                               * EffectivePageSize(query)],
                                    !.pc = "returned"]]
    /\ UNCHANGED <<contacts, clients, txStack, log>>

\* the texts escapeCsvValue is given: up to MaxFieldLen characters
EscapeTexts ==
    UNION { [1..n -> {"a", " ", ",", "\"", "\r", "\n"}] : n \in 0..MaxFieldLen }

\* escapeCsvValue(value): the text is kept in file, the answer in result
EscapeValue(p) ==
    /\ Arrives(p)
    /\ \E value \in EscapeTexts :
          req' = [req EXCEPT ![p] =
                    [Idle EXCEPT !.kind = "escape", !.file = <<value>>,
                                 !.result = [escaped |-> escapeCsvValue(value)],
                                 !.pc = "returned"]]
    /\ UNCHANGED <<contacts, clients, txStack, log>>

\* the caller has the answer
Returned(p) ==
    /\ req[p].pc = "returned"
    /\ req' = [req EXCEPT ![p] = Idle]
    /\ UNCHANGED <<contacts, clients, txStack, log, ops>>

-----------------------------------------------------------------------------
(* Specification of the import pipeline: one request at a time *)

InitImport ==
    /\ \E store \in InitialStores : contacts = store[1] /\ clients = store[2]
    /\ txStack = <<>>
    /\ req = [p \in {1} |-> Idle]
    /\ log = <<>>
    /\ ops = 0

NextImport ==
    \/ \E p \in Slots : UploadContactsCsv(p)
    \/ \E p \in Slots : UploadClientsCsv(p)
    \/ \E p \in Slots : UploadAgain(p)
    \/ \E p \in Slots : TxBegin(p)
    \/ \E p \in Slots : ProbeContacts(p)
    \/ \E p \in Slots : InsertContacts(p)
    \/ \E p \in Slots : SaveLoad(p)
    \/ \E p \in Slots : SaveWrite(p)
    \/ \E p \in Slots : ProbeClients(p)
    \/ \E p \in Slots : UpsertClients(p)
    \/ \E p \in Slots : TxCommit(p)
    \/ \E p \in Slots : TxRollback(p)
    \/ \E p \in Slots : RespondSuccess(p)
    \/ \E p \in Slots : RespondError(p)

SpecImport == InitImport /\ [][NextImport]_vars

-----------------------------------------------------------------------------
(* Specification of the contacts API: requests that overlap on the one       *)
(* connection of the data source                                             *)

Init ==
    /\ contacts \in { {}, {StoredContact(1, <<"a">>)} }
    /\ clients = [rows |-> {}, seq |-> 0]
    /\ txStack = <<>>
    /\ req = [p \in 1..NumSlots |-> Idle]
    /\ log = <<>>
    /\ ops = 0

Next ==
    \/ \E p \in Slots : ReceiveUpload(p)
    \/ \E p \in Slots : CreateContact(p)
    \/ \E p \in Slots : CreateUpdate(p)
    \/ \E p \in Slots : UpdateContact(p)
    \/ \E p \in Slots : PutFindExisting(p)
    \/ \E p \in Slots : PutFindConflicting(p)
    \/ \E p \in Slots : PutDelete(p)
    \/ \E p \in Slots : DeleteContact(p)
    \/ \E p \in Slots : DeleteWrite(p)
    \/ \E p \in Slots : TxBegin(p)
    \/ \E p \in Slots : ProbeContacts(p)
    \/ \E p \in Slots : InsertContacts(p)
    \/ \E p \in Slots : SaveLoad(p)
    \/ \E p \in Slots : SaveWrite(p)
    \/ \E p \in Slots : TxCommit(p)
    \/ \E p \in Slots : TxRollback(p)
    \/ \E p \in Slots : RespondSuccess(p)
    \/ \E p \in Slots : RespondError(p)

Spec == Init /\ [][Next]_vars

-----------------------------------------------------------------------------
(* Specification of uploads and exports that overlap on the one connection  *)

InitOverlap ==
    /\ contacts \in { {}, {StoredContact(1, <<"a">>)} }
    /\ clients = [rows |-> {}, seq |-> 0]
    /\ txStack = <<>>
    /\ req = [p \in 1..NumSlots |-> Idle]
    /\ log = <<>>
    /\ ops = 0

NextOverlap ==
    \/ \E p \in Slots : ReceiveOverlapUpload(p)
    \/ \E p \in Slots : ExportContacts(p)
    \/ \E p \in Slots : TxBegin(p)
    \/ \E p \in Slots : ProbeContacts(p)
    \/ \E p \in Slots : InsertContacts(p)
    \/ \E p \in Slots : SaveLoad(p)
    \/ \E p \in Slots : SaveWrite(p)
    \/ \E p \in Slots : TxCommit(p)
    \/ \E p \in Slots : TxRollback(p)
    \/ \E p \in Slots : RespondSuccess(p)
    \/ \E p \in Slots : RespondError(p)

SpecOverlap == InitOverlap /\ [][NextOverlap]_vars

-----------------------------------------------------------------------------
(* Specification of contact uploads, well formed and malformed, one request *)
(* at a time                                                                *)

NextMalformed ==
    \/ \E p \in Slots : UploadContactsCsv(p)
    \/ \E p \in Slots : UploadMalformedCsv(p)
    \/ \E p \in Slots : TxBegin(p)
    \/ \E p \in Slots : ProbeContacts(p)
    \/ \E p \in Slots : InsertContacts(p)
    \/ \E p \in Slots : SaveLoad(p)
    \/ \E p \in Slots : SaveWrite(p)
    \/ \E p \in Slots : TxCommit(p)
    \/ \E p \in Slots : TxRollback(p)
    \/ \E p \in Slots : RespondSuccess(p)
    \/ \E p \in Slots : RespondError(p)

SpecMalformed == InitImport /\ [][NextMalformed]_vars

-----------------------------------------------------------------------------
(* Specification of the contacts API without uploads: one request at a time *)

NextApi ==
    \/ \E p \in Slots : CreateContact(p)
    \/ \E p \in Slots : CreateUpdate(p)
    \/ \E p \in Slots : UpdateContact(p)
    \/ \E p \in Slots : TxBegin(p)
    \/ \E p \in Slots : PutFindExisting(p)
    \/ \E p \in Slots : PutFindConflicting(p)
    \/ \E p \in Slots : PutDelete(p)
    \/ \E p \in Slots : SaveLoad(p)
    \/ \E p \in Slots : SaveWrite(p)
    \/ \E p \in Slots : TxCommit(p)
    \/ \E p \in Slots : TxRollback(p)
    \/ \E p \in Slots : DeleteContact(p)
    \/ \E p \in Slots : DeleteWrite(p)
    \/ \E p \in Slots : GetContacts(p)
    \/ \E p \in Slots : GetMany(p)
    \/ \E p \in Slots : RespondSuccess(p)
    \/ \E p \in Slots : RespondError(p)

SpecApi == InitImport /\ [][NextApi]_vars

-----------------------------------------------------------------------------
(* Specification of PUT /contacts/:id next to exports on the one connection *)

NextPutObserved ==
    \/ \E p \in Slots : UpdateContact(p)
    \/ \E p \in Slots : ExportContacts(p)
    \/ \E p \in Slots : TxBegin(p)
    \/ \E p \in Slots : PutFindExisting(p)
    \/ \E p \in Slots : PutFindConflicting(p)
    \/ \E p \in Slots : PutDelete(p)
    \/ \E p \in Slots : SaveLoad(p)
    \/ \E p \in Slots : SaveWrite(p)
    \/ \E p \in Slots : TxCommit(p)
    \/ \E p \in Slots : TxRollback(p)
    \/ \E p \in Slots : RespondSuccess(p)
    \/ \E p \in Slots : RespondError(p)

SpecPutObserved == InitOverlap /\ [][NextPutObserved]_vars

-----------------------------------------------------------------------------
(* Specification of the validators called on their own *)

InitValidate ==
    /\ contacts = {}
    /\ clients = [rows |-> {}, seq |-> 0]
    /\ txStack = <<>>
    /\ req = [p \in {1} |-> Idle]
    /\ log = <<>>
    /\ ops = 0

NextValidate ==
    \/ \E p \in Slots : ValidateContact(p)
    \/ \E p \in Slots : CheckDate(p)
    \/ \E p \in Slots : EscapeValue(p)
    \/ \E p \in Slots : CatchError(p)
    \/ \E p \in Slots : Paginate(p)
    \/ \E p \in Slots : Returned(p)

SpecValidate == InitValidate /\ [][NextValidate]_vars

-----------------------------------------------------------------------------
(* Specification of an export followed by the upload of the exported file   *)
(* to an empty store. The upload finds no stored key, so the import has no  *)
(* update-set and nothing to save or roll back.                             *)

InitRoundTrip ==
    /\ contacts \in StoredDatasets
    /\ clients = [rows |-> {}, seq |-> 0]
    /\ txStack = <<>>
    /\ req = [p \in {1} |-> Idle]
    /\ log = <<>>
    /\ ops = 0

NextRoundTrip ==
    \/ \E p \in Slots : ExportContacts(p)
    \/ \E p \in Slots : UploadToEmptyStore(p)
    \/ \E p \in Slots : TxBegin(p)
    \/ \E p \in Slots : ProbeContacts(p)
    \/ \E p \in Slots : InsertContacts(p)
    \/ \E p \in Slots : TxCommit(p)
    \/ \E p \in Slots : RespondSuccess(p)

SpecRoundTrip == InitRoundTrip /\ [][NextRoundTrip]_vars

-----------------------------------------------------------------------------
(* Specification of the exports: the clients were created in any order of   *)
(* their client_id; a request changes the contacts (POST, PUT, DELETE) or   *)
(* exports either table.                                                    *)

\* clients tables after up to two creations, the generated id in either order
ExportClientStores ==
    { [rows |-> {}, seq |-> 0],
      [rows |-> {[id |-> 1, client_id |-> 2, client_name |-> <<"a">>]}, seq |-> 1],
      [rows |-> {[id |-> 1, client_id |-> 1, client_name |-> <<"a">>],
                 [id |-> 2, client_id |-> 2, client_name |-> <<"b", ",">>]}, seq |-> 2],
      [rows |-> {[id |-> 1, client_id |-> 2, client_name |-> <<"a">>],
                 [id |-> 2, client_id |-> 1, client_name |-> <<"b">>]}, seq |-> 2] }

InitExport ==
    /\ contacts \in InitialContacts
    /\ clients \in ExportClientStores
    /\ txStack = <<>>
    /\ req = [p \in {1} |-> Idle]
    /\ log = <<>>
    /\ ops = 0

NextExport ==
    \/ \E p \in Slots : CreateContact(p)
    \/ \E p \in Slots : CreateUpdate(p)
    \/ \E p \in Slots : UpdateContact(p)
    \/ \E p \in Slots : TxBegin(p)
    \/ \E p \in Slots : PutFindExisting(p)
    \/ \E p \in Slots : PutFindConflicting(p)
    \/ \E p \in Slots : PutDelete(p)
    \/ \E p \in Slots : SaveLoad(p)
    \/ \E p \in Slots : SaveWrite(p)
    \/ \E p \in Slots : TxCommit(p)
    \/ \E p \in Slots : TxRollback(p)
    \/ \E p \in Slots : DeleteContact(p)
    \/ \E p \in Slots : DeleteWrite(p)
    \/ \E p \in Slots : ExportContacts(p)
    \/ \E p \in Slots : ExportClients(p)
    \/ \E p \in Slots : RespondSuccess(p)
    \/ \E p \in Slots : RespondError(p)

SpecExport == InitExport /\ [][NextExport]_vars

-----------------------------------------------------------------------------
(* Specification of two overlapping imports on the one connection, every    *)
(* open transaction or savepoint telling which request opened it.           *)

NextTx ==
    \/ \E p \in Slots : ReceiveOverlapUpload(p)
    \/ \E p \in Slots : TxBeginBy(p)
    \/ \E p \in Slots : ProbeContacts(p)
    \/ \E p \in Slots : InsertContacts(p)
    \/ \E p \in Slots : SaveLoad(p)
    \/ \E p \in Slots : SaveWrite(p)
    \/ \E p \in Slots : TxCommit(p)
    \/ \E p \in Slots : TxRollback(p)
    \/ \E p \in Slots : RespondSuccess(p)
    \/ \E p \in Slots : RespondError(p)

SpecTx == InitOverlap /\ [][NextTx]_vars

-----------------------------------------------------------------------------
(* Specification of POST /api/clients, requests overlapping                 *)

InitClients ==
    /\ contacts = {}
    /\ clients \in InitialClients
    /\ txStack = <<>>
    /\ req = [p \in 1..NumSlots |-> Idle]
    /\ log = <<>>
    /\ ops = 0

NextClients ==
    \/ \E p \in Slots : CreateClient(p)
    \/ \E p \in Slots : ClientSave(p)

SpecClients == InitClients /\ [][NextClients]_vars

-----------------------------------------------------------------------------
(* Specification of PUT /api/contacts/:id with a date in the body, on       *)
(* stored contacts with different dates.                                    *)

DatedStores ==
    { {StoredContact(1, <<"a">>),
       [StoredContact(2, <<"a">>) EXCEPT
           !.contact_created_date = <<"0", "2", "/", "0", "3", "/", "2", "0", "2", "0">>]},
      {[StoredContact(1, <<"a">>) EXCEPT !.contact_created_date = D_BAD]} }

InitPutDate ==
    /\ contacts \in DatedStores
    /\ clients = [rows |-> {}, seq |-> 0]
    /\ txStack = <<>>
    /\ req = [p \in {1} |-> Idle]
    /\ log = <<>>
    /\ ops = 0

NextPutDate ==
    \/ \E p \in Slots : UpdateContactDated(p)
    \/ \E p \in Slots : TxBegin(p)
    \/ \E p \in Slots : PutFindExisting(p)
    \/ \E p \in Slots : PutFindConflicting(p)
    \/ \E p \in Slots : PutDelete(p)
    \/ \E p \in Slots : SaveLoad(p)
    \/ \E p \in Slots : SaveWrite(p)
    \/ \E p \in Slots : TxCommit(p)
    \/ \E p \in Slots : TxRollback(p)
    \/ \E p \in Slots : RespondSuccess(p)
    \/ \E p \in Slots : RespondError(p)

SpecPutDate == InitPutDate /\ [][NextPutDate]_vars

-----------------------------------------------------------------------------
(* Properties of the import pipeline *)

Answering == { p \in Slots : req[p].pc = "respond" }

\* C1: every import that returns a result (contacts or clients) returns
\* totalRecords = inserted + updated + skipped.
C1_TotalIsSum ==
    \A p \in Answering :
        LET r == req[p].result
        IN  r.totalRecords = r.inserted + r.updated + r.skipped

C1_Witness ==
    \E p \in Answering :
        /\ req[p].result.inserted > 0
        /\ req[p].result.updated > 0
        /\ req[p].result.skipped > 0

\* a text that is the decimal notation of a positive integer
PositiveIntegerText(s) == s # <<>> /\ IsDigits(s) /\ Head(s) # "0"

\* a file every record of which is well-formed
ValidFile(kind, file) ==
    \A i \in 1..Len(file) :
        IF kind = "contacts"
        THEN /\ PositiveIntegerText(file[i].contact_id)
             /\ PositiveIntegerText(file[i].law_firm_id)
             /\ isValidDateFormat(file[i].contact_created_date)
        ELSE /\ PositiveIntegerText(file[i].client_id)
             /\ Trim(file[i].client_name) # <<>>

RawKey(kind, record) == IF kind = "contacts" THEN record.contact_id ELSE record.client_id

FileKeys(kind, file) == { ParseInt(RawKey(kind, file[i])).val : i \in 1..Len(file) }

\* the first upload and the upload of the same file that followed it, when
\* neither met a storage failure
TwiceInSequence ==
    /\ Len(log) >= 2
    /\ log[1].file = log[2].file /\ log[1].kind = log[2].kind
    /\ log[1].file # <<>>
    /\ ValidFile(log[1].kind, log[1].file)
    /\ log[1].failedAt # "save" /\ log[2].failedAt # "save"

Idempotent ==
    LET n == Len(log[1].file)
    IN  /\ log[1].status = HTTP_OK /\ log[2].status = HTTP_OK
        /\ log[1].result.inserted = n /\ log[1].result.updated = 0
        /\ log[2].result.inserted = 0 /\ log[2].result.updated = n
        /\ log[2].rows = log[1].rows

FreshDistinctKeys ==
    LET file == log[1].file
        keys == FileKeys(log[1].kind, file)
    IN  /\ Len(file) <= MAX_RECORDS_PER_BATCH
        /\ Cardinality(keys) = Len(file)
        /\ keys \cap log[1].before = {}

C3_Atomicity ==
    \A p \in Slots :
        (req[p].pc = "error" /\ req[p].failedAt = "save" /\ req[p].inserted > 0)
            => contacts = req[p].pre.contacts

C3_Witness ==
    \E p \in Slots :
        /\ req[p].pc = "error" /\ req[p].failedAt = "save" /\ req[p].inserted > 0
        /\ contacts = req[p].pre.contacts

\* the contacts imports that have run their parse loop
ContactImports == { p \in Slots : req[p].kind = "contacts" /\ req[p].pc # "idle" }

\* a key text that is blank or does not give a positive integer
BadKeyText(raw) ==
    LET t == Trim(raw)
    IN  t = <<>> \/ ParseInt(t).nan \/ ParseInt(t).val <= 0

\* the indices 1..n that satisfy Test, in increasing order
IndicesWhere(n, Test(_)) == SelectSeq([i \in 1..n |-> i], Test)

MessagesOf(errors, type) ==
    LET OfType(m) == m.type = type IN SelectSeq(errors, OfType)

\* the rows the request has added to or changed in the contacts table
Written(r) == contacts \ r.pre.contacts

OverrunsBatch(r) ==
    /\ Len(r.file) = MAX_RECORDS_PER_BATCH + Overrun
    /\ ValidFile(r.kind, r.file)
    /\ Cardinality(FileKeys(r.kind, r.file)) = Len(r.file)

\* C6: the staged batch never holds more than MAX_RECORDS_PER_BATCH rows, and
\* an import of MAX_RECORDS_PER_BATCH + Overrun valid rows with distinct keys
\* returns totalRecords = MAX_RECORDS_PER_BATCH with exactly one batch-limit
\* message and writes none of the last Overrun rows.
C6_BatchCap ==
    \A p \in Slots :
        /\ Len(req[p].staged) <= MAX_RECORDS_PER_BATCH
        /\ (req[p].pc = "respond" /\ req[p].kind = "contacts" /\ OverrunsBatch(req[p])) =>
              /\ req[p].result.totalRecords = MAX_RECORDS_PER_BATCH
              /\ Len(MessagesOf(req[p].result.errors, "Batch size limit reached")) = 1
              /\ \A i \in (MAX_RECORDS_PER_BATCH + 1)..Len(req[p].file) :
                    ParseInt(req[p].file[i].contact_id).val \notin Keys(Written(req[p]))

C6_Witness ==
    \E p \in Slots :
        /\ req[p].pc = "respond" /\ req[p].kind = "contacts" /\ OverrunsBatch(req[p])
        /\ req[p].result.totalRecords = MAX_RECORDS_PER_BATCH
        /\ Cardinality(Written(req[p])) = MAX_RECORDS_PER_BATCH

\* the loop left before the end of the file because the batch was full
StoppedEarly(r) == r.consumed < Len(r.file) /\ Len(r.staged) >= MAX_RECORDS_PER_BATCH

\* C7 as stated: when an import stops early at the batch cap, errors holds a
\* single summary message, which reports how many records were truncated.
C7_Original ==
    \A p \in Answering :
        StoppedEarly(req[p]) =>
            LET msgs == MessagesOf(req[p].result.errors, "Batch size limit reached")
            IN  /\ Len(msgs) = 1
                /\ msgs[1].value = NumberToString(Len(req[p].file) - req[p].consumed)

\* C7, amended: the single summary message reports the batch limit
\* MAX_RECORDS_PER_BATCH (and that further records were not processed); it
\* is the last entry of errors, and it is there exactly when the import
\* stopped early.
C7_BatchLimitMessage ==
    \A p \in Answering :
        LET errors == req[p].result.errors
            msgs   == MessagesOf(errors, "Batch size limit reached")
        IN  IF StoppedEarly(req[p])
            THEN /\ Len(msgs) = 1
                 /\ errors[Len(errors)] = msgs[1]
                 /\ msgs[1].value = NumberToString(MAX_RECORDS_PER_BATCH)
            ELSE msgs = <<>>

C7_Witness ==
    \E p \in Answering :
        /\ StoppedEarly(req[p])
        /\ req[p].kind = "clients"
        /\ Len(req[p].file) - req[p].consumed > 1
        /\ Len(MessagesOf(req[p].result.errors, "Batch size limit reached")) = 1

\* C8: a record with a bad key or a bad contact_created_date is recorded in
\* errors and counted in skipped and is not persisted, while the import
\* still succeeds with the remaining records.
C8_RowDefectsSkipped ==
    \A p \in Answering :
        req[p].kind = "contacts" =>
            LET r         == req[p]
                Defect(i) == \/ BadKeyText(r.file[i].contact_id)
                             \/ ~isValidDateFormat(Trim(r.file[i].contact_created_date))
                defects   == IndicesWhere(r.consumed, Defect)
            IN  /\ r.result.skipped >= Len(defects)
                /\ Len(r.result.errors) >= Len(defects)
                /\ \A row \in Written(r) : isValidDateFormat(row.contact_created_date)

\* C9: after the probe every staged row is in exactly one of toInsert (its
\* key is not stored) and toUpdate (its key is stored), and each of the two
\* keeps the rows in input order.
C9_Partition ==
    \A p \in ContactImports :
        req[p].pc # "begin" /\ req[p].pc # "probe" =>
            LET r          == req[p]
                Stored(c)  == c.contact_id \in Keys(r.pre.contacts)
                Absent(c)  == ~Stored(c)
            IN  /\ r.toUpdate = SelectSeq(r.staged, Stored)
                /\ r.toInsert = SelectSeq(r.staged, Absent)
                /\ Len(r.toInsert) + Len(r.toUpdate) = Len(r.staged)

C9_Witness ==
    \E p \in ContactImports :
        /\ req[p].pc = "save"
        /\ Len(req[p].toUpdate) = 2
        /\ req[p].toUpdate[1].contact_id > req[p].toUpdate[2].contact_id

\* the requests whose transaction callback has run
PastCallback == { p \in Slots : req[p].pc \in {"commit", "respond", "rollback", "error"} }

Finds(r) == LET IsFind(st) == st.op = "find" IN Len(SelectSeq(r.stmts, IsFind))

\* C10 as stated: every import call issues exactly one query for the stored
\* keys, whatever the batch size (the empty batch included), inside the
\* transaction of the insert and update steps.
C10_Original ==
    \A p \in PastCallback :
        /\ Finds(req[p]) = 1
        /\ \A st \in Range(req[p].stmts) : st.tx

\* C10, amended: importContacts issues exactly one such query per call, the
\* empty batch included; importClients issues exactly one when its batch is
\* not empty and none when it is empty; every statement of the call runs
\* inside the call's transaction.
C10_ExistenceProbe ==
    \A p \in PastCallback :
        /\ Finds(req[p]) = IF req[p].kind = "clients" /\ req[p].staged = <<>> THEN 0 ELSE 1
        /\ \A st \in Range(req[p].stmts) : st.tx

C10_Witness ==
    \E p \in PastCallback :
        /\ req[p].kind = "contacts" /\ req[p].staged = <<>> /\ req[p].file # <<>>
        /\ Finds(req[p]) = 1
        /\ req[p].pc = "respond"

-----------------------------------------------------------------------------
(* Properties of the contacts API under overlapping requests *)

\* C4: in every reachable state, whatever POST /contacts, PUT /contacts/:id
\* (key-changing ones included), DELETE /contacts/:id and CSV imports ran and
\* however their steps interleaved, no two stored contacts share a contact_id.
C4_UniqueContactId ==
    \A r1, r2 \in contacts : r1.contact_id = r2.contact_id => r1 = r2

\* a key-changing PUT moved a contact to a key while an import that had found
\* the key free was on its way to insert under it, and the insert was refused
C4_Witness ==
    \E p, q \in Slots :
        /\ req[p].kind = "put" /\ req[p].data.contact_id # req[p].param
        /\ req[p].pc \in {"commit", "respond"}
        /\ req[q].kind = "contacts" /\ req[q].failedAt = "insert"
        /\ Len(req[q].toInsert) = 1
        /\ req[q].toInsert[1].contact_id = req[p].data.contact_id
        /\ req[p].data.contact_id \in Keys(contacts)

-----------------------------------------------------------------------------
(* Properties of uploads and exports that overlap *)

\* the table an import leaves when it runs alone on tbl: every staged row
\* is stored under its key, a later row of the batch replacing an earlier one
RECURSIVE ApplyStaged(_, _)
ApplyStaged(tbl, staged) ==
    IF staged = <<>> THEN tbl
    ELSE ApplyStaged(DeleteRow(tbl, Head(staged).contact_id) \cup {Head(staged)},
                     Tail(staged))

\* q is the only import of the behaviour so far
SoleImport(q) ==
    /\ \A i \in 1..Len(log) : log[i].kind # "contacts"
    /\ \A o \in Slots \ {q} : req[o].kind # "contacts"

\* C11: an export that ran next to an import which committed was given
\* either the table as it was before the import or the table with the whole
\* batch in it, never a table with only a part of the batch.
C11_NoPartialBatch ==
    \A p, q \in Slots :
        ( /\ req[p].kind = "export" /\ req[p].pc = "respond"
          /\ req[q].kind = "contacts" /\ req[q].pc = "respond"
          /\ SoleImport(q) )
        => req[p].pre.contacts \in
              { req[q].pre.contacts, ApplyStaged(req[q].pre.contacts, req[q].staged) }

\* the keys of a staged batch
StagedKeys(staged) == { staged[i].contact_id : i \in 1..Len(staged) }

\* p and q are two imports that arrived at the same table and have both run
\* to their answer, with no failure of the storage itself
SimultaneousImports(p, q) ==
    /\ p # q
    /\ req[p].kind = "contacts" /\ req[q].kind = "contacts"
    /\ req[p].pc \in {"respond", "error"} /\ req[q].pc \in {"respond", "error"}
    /\ req[p].pre = req[q].pre
    /\ req[p].failedAt # "save" /\ req[q].failedAt # "save"
    /\ txStack = <<>>

\* the keys both files carry and the table did not hold
OverlappingAbsentKeys(p, q) ==
    (StagedKeys(req[p].staged) \cap StagedKeys(req[q].staged)) \ Keys(req[p].pre.contacts)

\* C12: two simultaneous imports with overlapping absent keys leave each
\* overlapping key in exactly one row, and the table equals what the two
\* imports leave when run one after the other, in one of the two orders.
C12_NoDoubleInsert ==
    \A p, q \in Slots :
        (SimultaneousImports(p, q) /\ OverlappingAbsentKeys(p, q) # {})
        => /\ \A k \in OverlappingAbsentKeys(p, q) :
                 Cardinality({ r \in contacts : r.contact_id = k }) = 1
           /\ contacts \in
                 { ApplyStaged(ApplyStaged(req[p].pre.contacts, req[p].staged), req[q].staged),
                   ApplyStaged(ApplyStaged(req[p].pre.contacts, req[q].staged), req[p].staged) }

-----------------------------------------------------------------------------
(* Properties of uploads the parser fails on *)

\* C13: when the CSV parser raises an error, the import is answered with an
\* error: it never entered a transaction, issued no statement, and the
\* storage is what it was when the call arrived, rows parsed before the
\* error included.
C13_MalformedCsv ==
    /\ \A p \in Slots :
          req[p].failedAt = "parse"
          => /\ req[p].pc = "error"
             /\ ~req[p].inTx
             /\ req[p].stmts = <<>>
             /\ contacts = req[p].pre.contacts
             /\ clients = req[p].pre.clients
    /\ \A i \in 1..Len(log) :
          log[i].failedAt = "parse"
          => /\ log[i].status = HTTP_INTERNAL_SERVER_ERROR
             /\ log[i].result = NoResult
             /\ log[i].rows = Cardinality(log[i].before)

C13_Witness ==
    \E i \in 1..Len(log) :
        /\ log[i].failedAt = "parse"
        /\ log[i].status = HTTP_INTERNAL_SERVER_ERROR
        /\ \E j \in 1..Len(log[i].file) :
              /\ ~BadKeyText(log[i].file[j].contact_id)
              /\ ~BadKeyText(log[i].file[j].law_firm_id)
              /\ ParseInt(Trim(log[i].file[j].contact_id)).val \notin Keys(contacts)

-----------------------------------------------------------------------------
(* Properties of PUT and DELETE /contacts/:id, one request at a time *)

\* the PUT in slot p asks for another key than the one it addresses
KeyChanging(p) == req[p].kind = "put" /\ req[p].data.contact_id # req[p].param

\* C14: a PUT whose body carries the key of another stored contact is
\* answered with 409, and no step of it changes the storage: the addressed
\* row and the colliding row stay as they were.
C14_ConflictLeavesStorage ==
    [][ \A p \in Slots :
          /\ ( /\ KeyChanging(p) /\ req[p].pc \in {"begin", "put_find", "put_conflict"}
               /\ req[p].data.contact_id \in Keys(contacts) )
             => /\ contacts' = contacts
                /\ req'[p].pc # "put_delete"
                /\ req[p].pc = "put_conflict" => req'[p].failedAt = "conflict"
          /\ (req[p].kind = "put" /\ req[p].failedAt = "conflict")
             => /\ contacts' = contacts
                /\ req'[p].pc \in {"error", "idle"}
                /\ req'[p].pc = "idle" =>
                      /\ Len(log') = Len(log) + 1
                      /\ log'[Len(log')].status = HTTP_CONFLICT
      ]_vars

C14_Witness ==
    \E i \in 1..Len(log) :
        /\ log[i].kind = "put" /\ log[i].failedAt = "conflict"
        /\ log[i].status = HTTP_CONFLICT
        /\ {1, 2} \subseteq Keys(contacts)

-----------------------------------------------------------------------------
(* Properties of a key-changing PUT next to an export *)

\* C15: while a key-changing PUT that found its old key stored and its new
\* key free is under way or has succeeded, every export is given a table
\* that holds exactly one of the old and the new key.
C15_AtomicKeyChange ==
    \A p, q \in Slots :
        ( /\ req[p].kind = "export" /\ req[p].pc = "respond"
          /\ KeyChanging(q)
          /\ req[q].pc \in {"put_delete", "save", "save_write", "commit", "respond"} )
        => ( (req[q].param \in Keys(req[p].pre.contacts))
             # (req[q].data.contact_id \in Keys(req[p].pre.contacts)) )

\* the step answers a DELETE with the given status
AnswersDelete(status) ==
    /\ Len(log') = Len(log) + 1
    /\ log'[Len(log')].kind = "delete"
    /\ log'[Len(log')].status = status

\* C16: a DELETE answered with 404 leaves the storage as it is and some
\* well-formed key of the request set is indeed not stored; a DELETE goes on
\* to its delete statement only for a stored key, the statement removes the
\* row under that key and no other row, and the request is then answered
\* with success.
C16_Delete ==
    [][ /\ AnswersDelete(HTTP_NOT_FOUND)
           => /\ contacts' = contacts
              /\ \E contactIdParam \in DeleteParams :
                    /\ isPositiveIntegerText(contactIdParam)
                    /\ ParseInt(contactIdParam).val \notin Keys(contacts)
        /\ \A p \in Slots :
              /\ (req[p].pc = "idle" /\ req'[p].kind = "delete")
                 => /\ req'[p].param \in Keys(contacts)
                    /\ contacts' = contacts
              /\ (req[p].kind = "delete" /\ req[p].pc = "delete_write")
                 => /\ contacts' = { r \in contacts : r.contact_id # req[p].param }
                    /\ Cardinality(contacts') = Cardinality(contacts) - 1
                    /\ req'[p].pc = "respond"
              /\ (req[p].kind = "delete" /\ req[p].pc = "respond")
                 => /\ AnswersDelete(HTTP_OK)
                    /\ contacts' = contacts
      ]_vars

C16_Witness ==
    /\ Len(log) = 2
    /\ log[1].kind = "delete" /\ log[1].status = HTTP_OK
    /\ log[2].kind = "delete" /\ log[2].status = HTTP_NOT_FOUND
    /\ Keys(contacts) = {1}

-----------------------------------------------------------------------------
(* Properties of GET /contacts *)

\* the GET in slot p asks for a sort field the allow-list does not have
UnlistedSortField(p) ==
    /\ req[p].kind = "get"
    /\ req[p].query.sortField # ""
    /\ req[p].query.sortField \notin ALLOWED_SORT_FIELDS

-----------------------------------------------------------------------------
(* Properties of the validators *)

RequiredMessages ==
    [ contact_id           |-> "Contact ID is required and cannot be empty",
      first_name           |-> "First Name is required",
      contact_created_date |-> "Contact Created Date is required",
      law_firm_id          |-> "Law Firm ID is required" ]

FormatMessages ==
    { "Contact ID must be a positive integer", "Law Firm ID must be a positive integer",
      "Contact Created Date must be in MM/DD/YYYY format" }

\* the required fields the sanitized record lacks
MissingFields(sanitizedData) ==
    { f \in DOMAIN RequiredMessages :
        IF f \in {"contact_id", "law_firm_id"} THEN sanitizedData[f] = 0
        ELSE sanitizedData[f] = <<>> }

Occurrences(errors, text) == Cardinality({ i \in 1..Len(errors) : errors[i] = text })

\* C18: when the sanitized record lacks a required field, validateContactData
\* returns isValid = false, one message for each missing required field and
\* for no other, and no message of a format check.
C18_RequiredShortCircuit ==
    \A p \in Slots :
        (req[p].kind = "validate" /\ MissingFields(req[p].result.sanitizedData) # {})
        => LET v == req[p].result
               missing == MissingFields(v.sanitizedData)
           IN  /\ v.isValid = FALSE
               /\ Len(v.errors) = Cardinality(missing)
               /\ \A f \in DOMAIN RequiredMessages :
                     Occurrences(v.errors, RequiredMessages[f]) = IF f \in missing THEN 1 ELSE 0
               /\ \A i \in 1..Len(v.errors) : v.errors[i] \notin FormatMessages

C18_Witness ==
    \E p \in Slots :
        /\ req[p].kind = "validate"
        /\ MissingFields(req[p].result.sanitizedData) = {"first_name", "contact_created_date"}
        /\ Len(req[p].result.errors) = 2

\* the number a run of digits writes
RECURSIVE Numeral(_)
Numeral(s) ==
    IF s = <<>> THEN 0 ELSE 10 * Numeral(SubSeq(s, 1, Len(s) - 1)) + DigitVal(s[Len(s)])

\* the length of month m in year y of the Gregorian calendar
MonthLength(y, m) ==
    CASE m \in {1, 3, 5, 7, 8, 10, 12} -> 31
      [] m \in {4, 6, 9, 11} -> 30
      [] OTHER -> IF y % 400 = 0 \/ (y % 4 = 0 /\ y % 100 # 0) THEN 29 ELSE 28

\* s is month/day/year with a month and a day of one or two digits and a
\* year of four, and the day exists in that month of that year
RealCalendarDate(s) ==
    \E i, j \in 1..Len(s) :
        /\ i < j /\ s[i] = "/" /\ s[j] = "/"
        /\ LET m == SubSeq(s, 1, i - 1)
               d == SubSeq(s, i + 1, j - 1)
               y == SubSeq(s, j + 1, Len(s))
           IN  /\ Len(m) \in {1, 2} /\ Len(d) \in {1, 2} /\ Len(y) = 4
               /\ \A k \in 1..Len(m) : m[k] \in Digits
               /\ \A k \in 1..Len(d) : d[k] \in Digits
               /\ \A k \in 1..Len(y) : y[k] \in Digits
               /\ Numeral(m) \in 1..12
               /\ Numeral(d) \in 1..MonthLength(Numeral(y), Numeral(m))

\* C19: isValidDateFormat accepts a text exactly when it is M/D/YYYY with
\* optional leading zeros and names a day that exists in the calendar.
C19_DateValidator ==
    \A p \in Slots :
        req[p].kind = "date"
        => (req[p].result.accepted <=> RealCalendarDate(req[p].file[1]))

-----------------------------------------------------------------------------
(* Properties of export followed by import *)

\* C20: when the file of an export has been imported into an empty store,
\* the store holds exactly the rows that were exported: the same keys with
\* the same field values.
C20_RoundTrip ==
    \A p \in Slots :
        ( /\ req[p].kind = "contacts" /\ req[p].pc = "respond"
          /\ log # <<>> /\ log[Len(log)].kind = "export" )
        => contacts = req[p].pre.contacts

-----------------------------------------------------------------------------
(* Properties of the export *)

\* the field has a comma, a double quote or a line break in it
HasSpecial(v) == \E i \in 1..Len(v) : v[i] \in {",", "\"", "\n", "\r"}

\* t is v with every double quote written twice: read from the end
RECURSIVE IsDoubled(_, _)
IsDoubled(t, v) ==
    IF v = <<>> THEN t = <<>>
    ELSE LET last == v[Len(v)]
             n    == IF last = "\"" THEN 2 ELSE 1
         IN  /\ Len(t) >= n
             /\ \A k \in 0..(n - 1) : t[Len(t) - k] = last
             /\ IsDoubled(SubSeq(t, 1, Len(t) - n), SubSeq(v, 1, Len(v) - 1))

\* C21: escapeCsvValue puts a field between double quotes exactly when it
\* has a comma, a double quote or a line break in it, with every double
\* quote of the field written twice; any other field comes out as it is.
C21_ExportEscaping ==
    \A p \in Slots :
        req[p].kind = "escape"
        => LET v   == req[p].file[1]
               out == req[p].result.escaped
           IN  IF HasSpecial(v)
               THEN /\ Len(out) >= 2
                    /\ out[1] = "\"" /\ out[Len(out)] = "\""
                    /\ IsDoubled(SubSeq(out, 2, Len(out) - 1), v)
               ELSE out = v

C21_Witness ==
    \E p \in Slots :
        /\ req[p].kind = "escape"
        /\ req[p].file[1] = <<"a", "\"", ",">>
        /\ req[p].result.escaped = <<"\"", "a", "\"", "\"", ",", "\"">>

\* the natural keys of the data rows of an exported file, in file order
ExportedKeys(content) ==
    LET records == ParseText(content, 2, ParserStart).records
    IN  [k \in 1..(Len(records) - 1) |-> ParseInt(records[k + 1][1]).val]

-----------------------------------------------------------------------------
(* Properties of the error responses *)

\* C23: when a handler catches what a storage call or the CSV parser threw,
\* the client gets status 500 with the generic message, and two runs that
\* differ only in the text that was thrown get the same response.
C23_NoLeak ==
    \A p \in Slots :
        req[p].kind = "catch" /\ req[p].file[1] \in UnexpectedErrors
        => /\ req[p].result.first = [status |-> HTTP_INTERNAL_SERVER_ERROR, success |-> FALSE,
                                     message |-> GENERIC_ERROR]
           /\ req[p].result.first = req[p].result.second

\* a stack frame with a path was thrown in one run, a constraint failure in
\* the other
C23_Witness ==
    \E p \in Slots :
        /\ req[p].kind = "catch"
        /\ req[p].result.handler = "updateContact"
        /\ req[p].file[1] \in UnexpectedErrors /\ req[p].file[2] \in UnexpectedErrors
        /\ req[p].file[1].message # req[p].file[2].message
        /\ \E i \in 1..Len(req[p].file[1].message) : req[p].file[1].message[i] = "at"
        /\ req[p].result.first.status = HTTP_INTERNAL_SERVER_ERROR

-----------------------------------------------------------------------------
(* Properties of the transactions *)

\* C24: a handler that is about to send its response, on success or after
\* an error, has no transaction of its own still open on the connection.
C24_ClosedBeforeResponse ==
    \A p \in Slots :
        req[p].pc \in {"respond", "error"}
        => \A i \in 1..Len(txStack) : txStack[i].owner # p

-----------------------------------------------------------------------------
(* Properties of POST /api/clients *)

\* C25: no two client rows have the same client_id, and every request with
\* a valid body that did not create its client was answered 400 with the
\* message "Client ID already exists", the stored clients being as before.
C25_UniqueClientId ==
    /\ \A r1, r2 \in clients.rows : r1.client_id = r2.client_id => r1 = r2
    /\ \A i \in 1..Len(log) :
          log[i].kind = "createClient"
            /\ validateClientData(log[i].file[1]).isValid
            /\ log[i].status # HTTP_CREATED
          => /\ log[i].status = HTTP_BAD_REQUEST
             /\ log[i].result.message = CLIENT_ID_EXISTS

-----------------------------------------------------------------------------
(* Properties of PUT /api/contacts/:id *)

\* the row with key id
RowOf(tbl, id) == CHOOSE r \in tbl : r.contact_id = id

-----------------------------------------------------------------------------
(* Properties of the stored rows *)

\* the stored row as the body of a request
AsBody(row) ==
    [contact_id           |-> JsonNumber(row.contact_id),
     first_name           |-> row.first_name,
     contact_created_date |-> row.contact_created_date,
     law_firm_id          |-> JsonNumber(row.law_firm_id)]

\* C27: every stored contact passes validateContactData: its required
\* fields are there, contact_id and law_firm_id are positive integers and
\* contact_created_date is a date of the calendar.
C27_StoredRowsValid ==
    \A row \in contacts : validateContactData(AsBody(row)).isValid

-----------------------------------------------------------------------------
(* Properties of the reported counts *)

\* C28: when an import answers with its result, the table has grown by
\* result.inserted rows and result.updated of the rows it held before were
\* overwritten, also when the file has several rows with one key.
C28_CountsMatchStorage ==
    \A p \in Answering :
        req[p].kind \in {"contacts", "clients"}
        => LET r      == req[p]
               before == KeysBefore(r)
               now    == IF r.kind = "clients" THEN ClientKeys(clients) ELSE Keys(contacts)
               staged == { IF r.kind = "clients" THEN r.staged[i].client_id
                           ELSE r.staged[i].contact_id : i \in 1..Len(r.staged) }
           IN  /\ Cardinality(now) - Cardinality(before) = r.result.inserted
               /\ Cardinality(before \cap staged) = r.result.updated

-----------------------------------------------------------------------------
(* Properties of a file that repeats a key *)

\* two staged rows of the request have one key, and the table did not hold it
\* when the request arrived
RepeatsAbsentKey(r) ==
    /\ r.kind = "contacts"
    /\ \E i, j \in 1..Len(r.staged) :
          /\ i < j
          /\ r.staged[i].contact_id = r.staged[j].contact_id
          /\ r.staged[i].contact_id \notin Keys(r.pre.contacts)

-----------------------------------------------------------------------------
(* Properties of the pagination *)

\* C30: whatever page and pageSize the query string has, the pageSize used
\* for the query is between 1 and MAX_PAGE_SIZE and the offset page * pageSize
\* is not negative.
C30_PageBounds ==
    \A p \in Slots :
        req[p].kind = "paginate"
        => /\ req[p].result.pageSize >= 1
           /\ req[p].result.pageSize <= MAX_PAGE_SIZE
           /\ req[p].result.skip >= 0

====
